---- MODULE Spec2Model ----
(***************************************************************************)
(* Model of the DXF plan composer (creativus9/planodegravacaoAPI).         *)
(*                                                                         *)
(*   dxf_utils.py          parse_sku, calcular_bbox_dxf                    *)
(*   dxf_layout_engine.py  load_barra_dxf, generate_single_plan_layout_data*)
(*   google_drive_utils.py buscar_arquivo_personalizado_por_id_e_sku,      *)
(*                         baixar_arquivo_drive                            *)
(*   main.py               compor_plano                                    *)
(*                                                                         *)
(* Lengths are integers in thousandths of a millimetre, so that the        *)
(* source's 225.998 and 21.5 are exact (225998, 21500).  A string is a     *)
(* sequence of one-character strings.  An ezdxf entity is a record of      *)
(* what the code reads of it: its extent (bbox), which may be missing, and *)
(* its dxf.insert point, which only some entity types have.                *)
(***************************************************************************)
EXTENDS Integers, Sequences, FiniteSets, TLC

VARIABLES
    p_sku,          \* parse_sku: the argument of the call under study
    p_ret,          \* parse_sku: what the call returned
    b_msp,          \* calcular_bbox_dxf: the modelspace of the call under study
    b_ret,          \* calcular_bbox_dxf: what the call returned
    l_call,         \* compor_dxf_personalizado: arguments of the call under study
    l_ret,          \* compor_dxf_personalizado: what the call left behind
    barFile,        \* the file Plano_Info/Barra.dxf on disk
    barra,          \* the module globals barra_entities, barra_width, ...
    pc,             \* "idle" | "returned": position of the layout caller
    call,           \* arguments of the last generate_single_plan_layout_data
    ret,            \* its return value and its log lines
    snap,           \* an earlier call and its result, kept for comparison
    cpc,            \* compor_plano: position of the request handler
    sorted_plans,   \* compor_plano: the request's plan names, sorted
    plan_i,         \* compor_plano: how many of them the loop has done
    plan_log,       \* compor_plano: what each plan done so far returned
    current_y_offset_global,
    max_overall_width,
    msp,            \* compor_plano: the plans copied into the main document
    response        \* compor_plano: what the request answered

parseVars == <<p_sku, p_ret>>
bboxVars == <<b_msp, b_ret>>
legacyVars == <<l_call, l_ret>>
engineVars == <<barFile, barra, pc, call, ret, snap>>
composerVars == <<cpc, sorted_plans, plan_i, plan_log, current_y_offset_global,
                  max_overall_width, msp, response>>
vars == <<p_sku, p_ret, b_msp, b_ret, l_call, l_ret, barFile, barra, pc, call, ret, snap,
          cpc, sorted_plans, plan_i, plan_log, current_y_offset_global,
          max_overall_width, msp, response>>

----------------------------------------------------------------------------
(* Strings *)

\* The characters the model's strings are made of, in ascending code point
\* order ('-' is 45, the digits 48.., the capitals 65..).
Alphabet == <<"-", "0", "2", "3", "4", "5", "A", "B", "D", "P", "Q">>

Chars == {Alphabet[i] : i \in 1..Len(Alphabet)}

Code(c) == CHOOSE i \in 1..Len(Alphabet) : Alphabet[i] = c

\* Python's str < str: the first differing code point decides, a proper
\* prefix is smaller.
RECURSIVE StrLess(_, _)
StrLess(a, b) ==
    IF b = <<>> THEN FALSE
    ELSE IF a = <<>> THEN TRUE
    ELSE IF Head(a) = Head(b) THEN StrLess(Tail(a), Tail(b))
    ELSE Code(Head(a)) < Code(Head(b))

StrLeq(a, b) == a = b \/ StrLess(a, b)

\* str.split('-'): every '-' ends a part and starts the next one; the empty
\* string splits into one empty part.
RECURSIVE SplitFrom(_, _)
SplitFrom(s, parts) ==
    IF s = <<>> THEN parts
    ELSE IF Head(s) = "-"
         THEN SplitFrom(Tail(s), Append(parts, <<>>))
         ELSE SplitFrom(Tail(s),
                  [parts EXCEPT ![Len(parts)] = Append(@, Head(s))])

Split(s) == SplitFrom(s, << <<>> >>)

----------------------------------------------------------------------------
(* dxf_utils.parse_sku *)

\* Python's None next to a str: a value is a record, isNone says which.
None == [isNone |-> TRUE, val |-> <<>>]
Str(s) == [isNone |-> FALSE, val |-> s]

\* `not v` for None or a str
Falsy(v) == v.isNone \/ v.val = <<>>

parse_sku_wrong_field(sku) ==
    LET parts == Split(sku) IN
    IF Len(parts) # 7
    THEN <<None, None, None, None>>
    ELSE <<Str(parts[1]), Str(parts[2]), Str(parts[3]), Str(parts[4])>>

parse_sku(sku) ==
    LET parts == Split(sku) IN
    IF Len(parts) # 7
    THEN <<None, None, None, None>>
    ELSE <<Str(parts[1]), Str(parts[2]), Str(parts[3]), Str(parts[5])>>

----------------------------------------------------------------------------
(* Layout configuration, dxf_layout_engine.py lines 27-53 (1/1000 mm) *)

ESPACAMENTO_DXF_MESMO_FURO == 100000
ESPACAMENTO_LINHA_COR == 200000
ESPACAMENTO_PLANO_COR == 100000
MARGEM_ESQUERDA == 50000
MARGEM_INFERIOR == 50000
PLANO_DXF_FIXED_WIDTH_MM == 236000
PLANO_DXF_FIXED_HEIGHT_MM == 21500
ITEM_DXF_FIXED_WIDTH_MM == 129000
ITEM_DXF_FIXED_HEIGHT_MM == 225998
BARRA_DXF_FIXED_WIDTH_MM == 10000
BARRA_DXF_FIXED_HEIGHT_MM == 250000
ESPACAMENTO_SEPARADOR == 100000
\* the literal 100 of "MARGEM_ESQUERDA * 2 + 100"
LARGURA_MINIMA_EXTRA == 100000
\* the literal 1 of "estimated_layout_height = 1"
ALTURA_MINIMA == 1000

----------------------------------------------------------------------------
(* Entities and drawings *)

\* An entity with an extent (x0,y0)-(x1,y1) and no dxf.insert (a LINE, a
\* LWPOLYLINE), one with both (an INSERT, a TEXT), one whose bbox() raises
\* or is empty, and one of a type whose translate() raises.
Shape(x0, y0, x1, y1) ==
    [hasExt |-> TRUE, x0 |-> x0, y0 |-> y0, x1 |-> x1, y1 |-> y1,
     hasIns |-> FALSE, ix |-> 0, iy |-> 0, rigid |-> FALSE]

Block(x0, y0, x1, y1, ix, iy) ==
    [hasExt |-> TRUE, x0 |-> x0, y0 |-> y0, x1 |-> x1, y1 |-> y1,
     hasIns |-> TRUE, ix |-> ix, iy |-> iy, rigid |-> FALSE]

NoExtent ==
    [hasExt |-> FALSE, x0 |-> 0, y0 |-> 0, x1 |-> 0, y1 |-> 0,
     hasIns |-> FALSE, ix |-> 0, iy |-> 0, rigid |-> FALSE]

Rigid ==
    [hasExt |-> FALSE, x0 |-> 0, y0 |-> 0, x1 |-> 0, y1 |-> 0,
     hasIns |-> FALSE, ix |-> 0, iy |-> 0, rigid |-> TRUE]

\* entity.translate(dx, dy, 0) on a copy: the extent and the insert point move
translate(e, dx, dy) ==
    [e EXCEPT !.x0 = IF e.hasExt THEN @ + dx ELSE @,
              !.y0 = IF e.hasExt THEN @ + dy ELSE @,
              !.x1 = IF e.hasExt THEN @ + dx ELSE @,
              !.y1 = IF e.hasExt THEN @ + dy ELSE @,
              !.ix = IF e.hasIns THEN @ + dx ELSE @,
              !.iy = IF e.hasIns THEN @ + dy ELSE @]

\* A file on disk: absent, present and unreadable (ezdxf.readfile raises),
\* or a drawing with its modelspace entities.
AbsentFile == [exists |-> FALSE, readable |-> FALSE, ents |-> <<>>]
CorruptFile == [exists |-> TRUE, readable |-> FALSE, ents |-> <<>>]
Drawing(ents) == [exists |-> TRUE, readable |-> TRUE, ents |-> ents]

MinOf(S) == CHOOSE m \in S : \A n \in S : m <= n
MaxOf(S) == CHOOSE m \in S : \A n \in S : m >= n
Max2(a, b) == IF a >= b THEN a ELSE b

----------------------------------------------------------------------------
(* dxf_utils.calcular_bbox_dxf *)

calcular_bbox_dxf_no_guard(entities) ==
    LET seen == {i \in 1..Len(entities) : entities[i].hasExt}
    IN  IF seen = {} THEN <<0, 0, 0, 0>>
        ELSE <<MinOf({entities[i].x0 : i \in seen}), MinOf({entities[i].y0 : i \in seen}),
               MaxOf({entities[i].x1 : i \in seen}), MaxOf({entities[i].y1 : i \in seen})>>

calcular_bbox_dxf(entities) ==
    LET \* the entities whose e.bbox() neither raised nor was empty
        seen == {i \in 1..Len(entities) : entities[i].hasExt}
        min_x == MinOf({entities[i].x0 : i \in seen})
        min_y == MinOf({entities[i].y0 : i \in seen})
        max_x == MaxOf({entities[i].x1 : i \in seen})
        max_y == MaxOf({entities[i].y1 : i \in seen})
    IN  IF Len(entities) = 0 THEN <<0, 0, 0, 0>>          \* not found_any_entity
        ELSE IF seen = {} THEN <<0, 0, 0, 0>>             \* bbox_union.is_empty
        ELSE IF min_x >= max_x \/ min_y >= max_y THEN <<0, 0, 0, 0>>
        ELSE <<min_x, min_y, max_x, max_y>>

----------------------------------------------------------------------------
(* The Drive folder, google_drive_utils.py *)

\* What the Drive holds for each logical id of the sheet: whether a file
\* "<id> - Arquivo Personalizado*.dxf" is listed, whether get_media succeeds,
\* and the content that lands in /tmp/<sku>.dxf.
DriveIds == {"ok", "off", "noext", "ins", "missing", "dlfail", "corrupt", "rigid"}

DriveFolder(id) ==
    CASE id = "ok"      -> [listed |-> TRUE, media |-> TRUE,
                            file |-> Drawing(<<Shape(0, 0, 40000, 30000)>>)]
      [] id = "off"     -> [listed |-> TRUE, media |-> TRUE,
                            file |-> Drawing(<<Shape(10000, 20000, 60000, 100000)>>)]
      [] id = "noext"   -> [listed |-> TRUE, media |-> TRUE,
                            file |-> Drawing(<<NoExtent>>)]
      [] id = "ins"     -> [listed |-> TRUE, media |-> TRUE,
                            file |-> Drawing(<<Block(0, 0, 30000, 260000, 5000, 7000)>>)]
      [] id = "missing" -> [listed |-> FALSE, media |-> FALSE, file |-> AbsentFile]
      [] id = "dlfail"  -> [listed |-> TRUE, media |-> FALSE, file |-> AbsentFile]
      [] id = "corrupt" -> [listed |-> TRUE, media |-> TRUE, file |-> CorruptFile]
      [] id = "rigid"   -> [listed |-> TRUE, media |-> TRUE,
                            file |-> Drawing(<<Rigid>>)]

\* Returns (real_file_id, name) or raises FileNotFoundError / Exception.
buscar_arquivo_personalizado_por_id_e_sku(target_id) ==
    IF DriveFolder(target_id).listed
    THEN [raises |-> FALSE, real_file_id |-> target_id]
    ELSE [raises |-> TRUE, real_file_id |-> target_id]

\* Returns the local path (here: the file that is now at that path) or raises.
\* The local file is opened for writing (line 68) before the download runs
\* (line 69), so it is on disk after the call either way.
baixar_arquivo_drive(file_id) ==
    IF DriveFolder(file_id).media
    THEN [raises |-> FALSE, local |-> DriveFolder(file_id).file, on_disk |-> TRUE]
    ELSE [raises |-> TRUE, local |-> AbsentFile, on_disk |-> TRUE]

----------------------------------------------------------------------------
(* generate_single_plan_layout_data, part 1: download and organize *)

\* lines 176-204: the dict appended to the leaf list.  On a 0x0 box the
\* fixed item size is used and the reference origin is (0,0).
item_fragment_no_fallback(sku, file) ==
    LET b == calcular_bbox_dxf(file.ents)
    IN  [entities |-> file.ents, sku |-> sku,
         bbox_width |-> b[3] - b[1], bbox_height |-> b[4] - b[2],
         original_min_x |-> b[1], original_min_y |-> b[2]]

item_fragment(sku, file) ==
    LET b == calcular_bbox_dxf(file.ents)
        dxf_width == b[3] - b[1]
        dxf_height == b[4] - b[2]
        fallback == dxf_width = 0 /\ dxf_height = 0
    IN  [entities |-> file.ents,                \* entity.copy() of each
         sku |-> sku,
         bbox_width |-> IF fallback THEN ITEM_DXF_FIXED_WIDTH_MM ELSE dxf_width,
         bbox_height |-> IF fallback THEN ITEM_DXF_FIXED_HEIGHT_MM ELSE dxf_height,
         original_min_x |-> IF fallback THEN 0 ELSE b[1],
         original_min_y |-> IF fallback THEN 0 ELSE b[2]]

\* line 148: if not dxf_format or not dxf_size or not hole_type or not color_code
sku_rejected_any_empty_part(sku) ==
    LET parts == Split(sku) IN
    Len(parts) # 7 \/ \E i \in 1..Len(parts) : parts[i] = <<>>

sku_rejected(sku) ==
    LET p == parse_sku(sku) IN
    Falsy(p[1]) \/ Falsy(p[2]) \/ Falsy(p[3]) \/ Falsy(p[4])

\* organized_dxfs[color_code][dxf_format][dxf_size][hole_type]: the nested
\* defaultdicts as one function from the key path to the leaf list.
leaf_key(sku) ==
    LET p == parse_sku(sku) IN <<p[4].val, p[1].val, p[2].val, p[3].val>>

leaf_append_replaces(organized, key, frag) ==
    IF key \in DOMAIN organized
    THEN [organized EXCEPT ![key] = <<frag>>]
    ELSE organized @@ (key :> <<frag>>)

leaf_append(organized, key, frag) ==
    IF key \in DOMAIN organized
    THEN [organized EXCEPT ![key] = Append(@, frag)]
    ELSE organized @@ (key :> <<frag>>)

\* One turn of the loop of lines 140-213: the item is skipped (continue, or
\* an except branch) or its fragment is appended to its leaf.
process_item_unreadable_kept(organized, item) ==
    LET found == buscar_arquivo_personalizado_por_id_e_sku(item.id_arquivo_drive)
        got == baixar_arquivo_drive(found.real_file_id)
    IN  IF sku_rejected(item.sku) THEN organized
        ELSE IF found.raises THEN organized
        ELSE IF got.raises THEN organized
        ELSE leaf_append(organized, leaf_key(item.sku),
                         item_fragment(item.sku, got.local))

process_item(organized, item) ==
    LET found == buscar_arquivo_personalizado_por_id_e_sku(item.id_arquivo_drive)
        got == baixar_arquivo_drive(found.real_file_id)
    IN  IF sku_rejected(item.sku) THEN organized            \* line 150
        ELSE IF found.raises THEN organized                 \* lines 162-167
        ELSE IF got.raises THEN organized                   \* lines 172-174
        ELSE IF ~got.local.readable THEN organized          \* lines 207-210
        ELSE leaf_append(organized, leaf_key(item.sku),
                         item_fragment(item.sku, got.local))

RECURSIVE organize(_, _)
organize(items, organized) ==
    IF items = <<>> THEN organized
    ELSE organize(Tail(items), process_item(organized, Head(items)))

EmptyDict == [k \in {} |-> <<>>]

\* The local copies /tmp/<sku>.dxf on disk after one turn of the loop: the
\* download puts one there, the finally of lines 211-213 removes it, and the
\* except of lines 172-174 leaves the turn before the try that owns the finally.
tmp_after_item(tmp, item) ==
    LET found == buscar_arquivo_personalizado_por_id_e_sku(item.id_arquivo_drive)
        got == baixar_arquivo_drive(found.real_file_id)
    IN  IF sku_rejected(item.sku) THEN tmp
        ELSE IF found.raises THEN tmp
        ELSE IF got.raises
        THEN (IF got.on_disk THEN tmp \cup {item.sku} ELSE tmp)
        ELSE tmp \ {item.sku}

RECURSIVE tmp_files(_, _)
tmp_files(items, tmp) ==
    IF items = <<>> THEN tmp
    ELSE tmp_files(Tail(items), tmp_after_item(tmp, Head(items)))

----------------------------------------------------------------------------
(* load_barra_dxf, lines 63-99 *)

\* The globals at module load, lines 56-59.
BarraInicial ==
    [entities |-> <<>>, width |-> BARRA_DXF_FIXED_WIDTH_MM,
     height |-> BARRA_DXF_FIXED_HEIGHT_MM,
     original_min_x |-> 0, original_min_y |-> 0]

load_barra_dxf(globals, file) ==
    LET b == calcular_bbox_dxf(file.ents)
        fallback == (b[3] - b[1]) = 0 /\ (b[4] - b[2]) = 0
    IN  IF globals.entities # <<>> THEN globals           \* already loaded
        ELSE IF ~file.exists THEN globals                 \* line 97
        ELSE IF ~file.readable THEN [globals EXCEPT !.entities = <<>>]
        ELSE [entities |-> file.ents,
              width |-> IF fallback THEN BARRA_DXF_FIXED_WIDTH_MM ELSE b[3] - b[1],
              height |-> IF fallback THEN BARRA_DXF_FIXED_HEIGHT_MM ELSE b[4] - b[2],
              original_min_x |-> IF fallback THEN 0 ELSE b[1],
              original_min_y |-> IF fallback THEN 0 ELSE b[2]]

----------------------------------------------------------------------------
(* generate_single_plan_layout_data, part 2: the plan-info drawing *)

\* lines 216-253: plano_entities, plano_width, plano_height and the origin.
\* An absent or unreadable file leaves plano_entities empty.
load_plano_unreadable_placed(file) ==
    LET b == calcular_bbox_dxf(file.ents)
        fallback == (b[3] - b[1]) = 0 /\ (b[4] - b[2]) = 0
    IN  IF ~file.exists
        THEN [entities |-> <<>>, width |-> 0, height |-> 0,
              original_min_x |-> 0, original_min_y |-> 0]
        ELSE IF ~file.readable
        THEN [entities |-> <<NoExtent>>, width |-> PLANO_DXF_FIXED_WIDTH_MM,
              height |-> PLANO_DXF_FIXED_HEIGHT_MM,
              original_min_x |-> 0, original_min_y |-> 0]
        ELSE [entities |-> file.ents,
              width |-> IF fallback THEN PLANO_DXF_FIXED_WIDTH_MM ELSE b[3] - b[1],
              height |-> IF fallback THEN PLANO_DXF_FIXED_HEIGHT_MM ELSE b[4] - b[2],
              original_min_x |-> IF fallback THEN 0 ELSE b[1],
              original_min_y |-> IF fallback THEN 0 ELSE b[2]]

load_plano(file) ==
    LET b == calcular_bbox_dxf(file.ents)
        fallback == (b[3] - b[1]) = 0 /\ (b[4] - b[2]) = 0
    IN  IF ~file.exists \/ ~file.readable
        THEN [entities |-> <<>>, width |-> 0, height |-> 0,
              original_min_x |-> 0, original_min_y |-> 0]
        ELSE [entities |-> file.ents,
              width |-> IF fallback THEN PLANO_DXF_FIXED_WIDTH_MM ELSE b[3] - b[1],
              height |-> IF fallback THEN PLANO_DXF_FIXED_HEIGHT_MM ELSE b[4] - b[2],
              original_min_x |-> IF fallback THEN 0 ELSE b[1],
              original_min_y |-> IF fallback THEN 0 ELSE b[2]]

----------------------------------------------------------------------------
(* Iteration order over the grouping index *)

\* sorted(d.keys()) for a set of strings
RECURSIVE Sorted(_)
Sorted(S) ==
    IF S = {} THEN <<>>
    ELSE LET m == CHOOSE x \in S : \A y \in S : StrLeq(x, y)
         IN  <<m>> \o Sorted(S \ {m})

\* sorted(hole_type_group, key=lambda x: x['sku']): stable, so equal SKUs
\* keep their order of arrival.
sorted_by_sku_input_order(group) == group

RECURSIVE sorted_by_sku_unstable(_)
sorted_by_sku_unstable(group) ==
    IF group = <<>> THEN <<>>
    ELSE LET n == Len(group)
             front == sorted_by_sku_unstable(SubSeq(group, 1, n - 1))
             e == group[n]
             k == Cardinality({i \in 1..Len(front) : StrLess(front[i].sku, e.sku)})
         IN  SubSeq(front, 1, k) \o <<e>> \o SubSeq(front, k + 1, Len(front))

RECURSIVE sorted_by_sku(_)
sorted_by_sku(group) ==
    IF group = <<>> THEN <<>>
    ELSE LET n == Len(group)
             front == sorted_by_sku(SubSeq(group, 1, n - 1))
             e == group[n]
             k == Cardinality({i \in 1..Len(front) : StrLeq(front[i].sku, e.sku)})
         IN  SubSeq(front, 1, k) \o <<e>> \o SubSeq(front, k + 1, Len(front))

colors_of(organized) == {k[1] : k \in DOMAIN organized}
formats_of(organized, c) == {k[2] : k \in {q \in DOMAIN organized : q[1] = c}}
sizes_of(organized, c, f) ==
    {k[3] : k \in {q \in DOMAIN organized : q[1] = c /\ q[2] = f}}
holes_of(organized, c, f, z) ==
    {k[4] : k \in {q \in DOMAIN organized : q[1] = c /\ q[2] = f /\ q[3] = z}}

----------------------------------------------------------------------------
(* generate_single_plan_layout_data, part 3: row heights *)

\* lines 269-280 and 325-335: the tallest item of the colour, and the bar's
\* height whenever a bar is loaded.
max_height_in_color_line_items_only(organized, bar, color) ==
    LET keys == {q \in DOMAIN organized : q[1] = color}
        heights == UNION {{organized[k][i].bbox_height : i \in 1..Len(organized[k])}
                          : k \in keys}
    IN  MaxOf({0} \cup heights)

max_height_in_color_line(organized, bar, color) ==
    LET keys == {q \in DOMAIN organized : q[1] = color}
        heights == UNION {{organized[k][i].bbox_height : i \in 1..Len(organized[k])}
                          : k \in keys}
    IN  MaxOf({0} \cup (IF bar.entities # <<>> THEN {bar.height} ELSE {}) \cup heights)

\* lines 262-292: the first pass
RECURSIVE sum_of_rows(_, _, _)
sum_of_rows(organized, bar, colors) ==
    IF colors = <<>> THEN 0
    ELSE LET h == max_height_in_color_line(organized, bar, Head(colors))
         IN  (IF h > 0 THEN h + ESPACAMENTO_LINHA_COR ELSE 0)
             + sum_of_rows(organized, bar, Tail(colors))

estimated_layout_height(organized, plano, bar) ==
    LET top == IF plano.entities # <<>>
               THEN plano.height + ESPACAMENTO_PLANO_COR ELSE 0
        rows == top + sum_of_rows(organized, bar, Sorted(colors_of(organized)))
        trimmed == IF DOMAIN organized # {} /\ rows > 0
                   THEN rows - ESPACAMENTO_LINHA_COR ELSE rows
    IN  IF trimmed = 0 THEN ALTURA_MINIMA ELSE trimmed

----------------------------------------------------------------------------
(* generate_single_plan_layout_data, part 3: placement *)

\* The value recorded next to a placed entity, lines 307, 357, 431:
\* new_ent.dxf.insert.x if hasattr(new_ent.dxf, 'insert') else offset_x
recorded(new_ent, offset_x, offset_y) ==
    IF new_ent.hasIns THEN <<new_ent.ix, new_ent.iy>> ELSE <<offset_x, offset_y>>

\* for ent in entities: copy, translate, append (ent, x, y).  `frag` is the
\* number of the log line of the fragment the entity belongs to.
RECURSIVE append_entities(_, _, _, _, _)
append_entities(out, entities, offset_x, offset_y, frag) ==
    IF entities = <<>> THEN out
    ELSE LET new_ent == translate(Head(entities), offset_x, offset_y)
             xy == recorded(new_ent, offset_x, offset_y)
         IN  append_entities(
                 Append(out, [ent |-> new_ent, x |-> xy[1], y |-> xy[2], frag |-> frag]),
                 Tail(entities), offset_x, offset_y, frag)

\* A log line "[DEBUG] ... inserido em X:.., Y:.." (lines 309, 358, 433):
\* where the fragment's box lands and the size reserved for it.
LogLine(kind, sku, key, x, y, w, h) ==
    [kind |-> kind, sku |-> sku, key |-> key, x |-> x, y |-> y, w |-> w, h |-> h]

NoKey == <<<<>>, <<>>, <<>>, <<>>>>

\* lines 298-311: the plan-info drawing at the top, at the left margin
place_plano_no_margin(st, plano) ==
    IF plano.entities = <<>> THEN st
    ELSE LET plano_insert_y == st.y - plano.height
         IN  [st EXCEPT
                !.out = append_entities(@, plano.entities, -plano.original_min_x,
                                        plano_insert_y - plano.original_min_y,
                                        Len(st.frags) + 1),
                !.frags = Append(@, LogLine("plano", <<>>, NoKey, 0,
                                            plano_insert_y, plano.width, plano.height)),
                !.y = plano_insert_y - ESPACAMENTO_PLANO_COR]

place_plano(st, plano) ==
    IF plano.entities = <<>> THEN st
    ELSE LET plano_insert_y == st.y - plano.height
             offset_x_plano == MARGEM_ESQUERDA - plano.original_min_x
             offset_y_plano == plano_insert_y - plano.original_min_y
         IN  [st EXCEPT
                !.out = append_entities(@, plano.entities, offset_x_plano,
                                        offset_y_plano, Len(st.frags) + 1),
                !.frags = Append(@, LogLine("plano", <<>>, NoKey, MARGEM_ESQUERDA,
                                            plano_insert_y, plano.width, plano.height)),
                !.y = plano_insert_y - ESPACAMENTO_PLANO_COR]

\* lines 346-362 (and 369-384, 391-406): a bar copy between two groups, or
\* the plain spacing when no bar is loaded
\* The bar entities as the last bar copy placed left them
last_bar_copy(st, bar) ==
    LET placed == SelectSeq(st.out, LAMBDA e : st.frags[e.frag].kind = "barra")
        n == Len(bar.entities)
    IN  IF placed = <<>> THEN bar.entities
        ELSE [i \in 1..n |-> placed[Len(placed) - n + i].ent]

place_separator_translates_source(st, bar, key, row_base_y) ==
    IF bar.entities # <<>>
    THEN LET x_barra == st.x + ESPACAMENTO_SEPARADOR
             offset_x_barra == x_barra - bar.original_min_x
             offset_y_barra == row_base_y - bar.original_min_y
         IN  [st EXCEPT
                !.out = append_entities(@, last_bar_copy(st, bar), offset_x_barra,
                                        offset_y_barra, Len(st.frags) + 1),
                !.frags = Append(@, LogLine("barra", <<>>, key, x_barra, row_base_y,
                                            bar.width, bar.height)),
                !.x = x_barra + bar.width + ESPACAMENTO_SEPARADOR]
    ELSE [st EXCEPT !.x = @ + ESPACAMENTO_DXF_MESMO_FURO]

place_separator_no_fallback_gap(st, bar, key, row_base_y) ==
    IF bar.entities # <<>>
    THEN LET x_barra == st.x + ESPACAMENTO_SEPARADOR
             offset_x_barra == x_barra - bar.original_min_x
             offset_y_barra == row_base_y - bar.original_min_y
         IN  [st EXCEPT
                !.out = append_entities(@, bar.entities, offset_x_barra,
                                        offset_y_barra, Len(st.frags) + 1),
                !.frags = Append(@, LogLine("barra", <<>>, key, x_barra, row_base_y,
                                            bar.width, bar.height)),
                !.x = x_barra + bar.width + ESPACAMENTO_SEPARADOR]
    ELSE st

place_separator(st, bar, key, row_base_y) ==
    IF bar.entities # <<>>
    THEN LET x_barra == st.x + ESPACAMENTO_SEPARADOR
             offset_x_barra == x_barra - bar.original_min_x
             offset_y_barra == row_base_y - bar.original_min_y
         IN  [st EXCEPT
                !.out = append_entities(@, bar.entities, offset_x_barra,
                                        offset_y_barra, Len(st.frags) + 1),
                !.frags = Append(@, LogLine("barra", <<>>, key,
                                            offset_x_barra + bar.original_min_x,
                                            offset_y_barra + bar.original_min_y,
                                            bar.width, bar.height)),
                !.x = x_barra + bar.width + ESPACAMENTO_SEPARADOR]
    ELSE [st EXCEPT !.x = @ + ESPACAMENTO_DXF_MESMO_FURO]

\* lines 412-435: one item of a hole-type group
place_item_no_gap(st, dxf_item, key, first_dxf_in_group, row_base_y) ==
    LET offset_x == st.x - dxf_item.original_min_x
        offset_y == row_base_y - dxf_item.original_min_y
    IN  [st EXCEPT
           !.out = append_entities(@, dxf_item.entities, offset_x, offset_y,
                                   Len(st.frags) + 1),
           !.frags = Append(@, LogLine("item", dxf_item.sku, key, st.x, row_base_y,
                                       dxf_item.bbox_width, dxf_item.bbox_height)),
           !.x = st.x + dxf_item.bbox_width]

place_item(st, dxf_item, key, first_dxf_in_group, row_base_y) ==
    LET current_x_pos == IF first_dxf_in_group THEN st.x
                         ELSE st.x + ESPACAMENTO_DXF_MESMO_FURO
        offset_x == current_x_pos - dxf_item.original_min_x
        offset_y == row_base_y - dxf_item.original_min_y
    IN  [st EXCEPT
           !.out = append_entities(@, dxf_item.entities, offset_x, offset_y,
                                   Len(st.frags) + 1),
           !.frags = Append(@, LogLine("item", dxf_item.sku, key,
                                       offset_x + dxf_item.original_min_x,
                                       offset_y + dxf_item.original_min_y,
                                       dxf_item.bbox_width, dxf_item.bbox_height)),
           !.x = current_x_pos + dxf_item.bbox_width]

RECURSIVE place_group(_, _, _, _, _)
place_group(st, dxfs, key, first_dxf_in_group, row_base_y) ==
    IF dxfs = <<>> THEN st
    ELSE place_group(place_item(st, Head(dxfs), key, first_dxf_in_group, row_base_y),
                     Tail(dxfs), key, FALSE, row_base_y)

\* lines 386-437: the hole types of one size, in sorted order
RECURSIVE place_holes(_, _, _, _, _, _, _, _, _)
place_holes(st, organized, bar, c, f, z, holes, first_hole_type_in_size, row_base_y) ==
    IF holes = <<>> THEN st
    ELSE LET key == <<c, f, z, Head(holes)>>
             s1 == IF first_hole_type_in_size THEN st
                   ELSE place_separator(st, bar, key, row_base_y)
             s2 == place_group(s1, sorted_by_sku(organized[key]), key, TRUE, row_base_y)
         IN  place_holes(s2, organized, bar, c, f, z, Tail(holes), FALSE, row_base_y)

\* lines 364-438: the sizes of one format
RECURSIVE place_sizes_always_separates(_, _, _, _, _, _, _, _)
place_sizes_always_separates(st, organized, bar, c, f, sizes, first_size_in_format, row_base_y) ==
    IF sizes = <<>> THEN st
    ELSE LET z == Head(sizes)
             first_key == <<c, f, z, Sorted(holes_of(organized, c, f, z))[1]>>
             s1 == place_separator(st, bar, first_key, row_base_y)
             s2 == place_holes(s1, organized, bar, c, f, z,
                               Sorted(holes_of(organized, c, f, z)), TRUE, row_base_y)
         IN  place_sizes_always_separates(s2, organized, bar, c, f, Tail(sizes), FALSE,
                                          row_base_y)

RECURSIVE place_sizes(_, _, _, _, _, _, _, _)
place_sizes(st, organized, bar, c, f, sizes, first_size_in_format, row_base_y) ==
    IF sizes = <<>> THEN st
    ELSE LET z == Head(sizes)
             first_key == <<c, f, z, Sorted(holes_of(organized, c, f, z))[1]>>
             s1 == IF first_size_in_format THEN st
                   ELSE place_separator(st, bar, first_key, row_base_y)
             s2 == place_holes(s1, organized, bar, c, f, z,
                               Sorted(holes_of(organized, c, f, z)), TRUE, row_base_y)
         IN  place_sizes(s2, organized, bar, c, f, Tail(sizes), FALSE, row_base_y)

\* lines 341-439: the formats of one colour
RECURSIVE place_formats(_, _, _, _, _, _, _)
place_formats(st, organized, bar, c, formats, first_format_in_line, row_base_y) ==
    IF formats = <<>> THEN st
    ELSE LET f == Head(formats)
             z1 == Sorted(sizes_of(organized, c, f))[1]
             first_key == <<c, f, z1, Sorted(holes_of(organized, c, f, z1))[1]>>
             s1 == IF first_format_in_line THEN st
                   ELSE place_separator(st, bar, first_key, row_base_y)
             s2 == place_sizes(s1, organized, bar, c, f,
                               Sorted(sizes_of(organized, c, f)), TRUE, row_base_y)
         IN  place_formats(s2, organized, bar, c, Tail(formats), FALSE, row_base_y)

\* lines 320-443: one colour row after the other, top down
RECURSIVE place_rows_no_row_spacing(_, _, _, _)
place_rows_no_row_spacing(st, organized, bar, colors) ==
    IF colors = <<>> THEN st
    ELSE LET c == Head(colors)
             h == max_height_in_color_line(organized, bar, c)
             row_base_y == st.y - h
             s0 == [st EXCEPT !.x = MARGEM_ESQUERDA,
                              !.rows = Append(@, [color |-> c, base_y |-> row_base_y,
                                                  height |-> h])]
             s1 == place_formats(s0, organized, bar, c,
                                 Sorted(formats_of(organized, c)), TRUE, row_base_y)
         IN  place_rows_no_row_spacing([s1 EXCEPT !.y = row_base_y],
                                       organized, bar, Tail(colors))

RECURSIVE place_rows(_, _, _, _)
place_rows(st, organized, bar, colors) ==
    IF colors = <<>> THEN st
    ELSE LET c == Head(colors)
             h == max_height_in_color_line(organized, bar, c)
             row_base_y == st.y - h
             s0 == [st EXCEPT !.x = MARGEM_ESQUERDA,
                              !.rows = Append(@, [color |-> c, base_y |-> row_base_y,
                                                  height |-> h])]
             s1 == place_formats(s0, organized, bar, c,
                                 Sorted(formats_of(organized, c)), TRUE, row_base_y)
         IN  place_rows([s1 EXCEPT !.y = row_base_y - ESPACAMENTO_LINHA_COR],
                        organized, bar, Tail(colors))

----------------------------------------------------------------------------
(* generate_single_plan_layout_data, part 4: final box and normalization *)

RECURSIVE entities_of(_)
entities_of(out) ==
    IF out = <<>> THEN <<>> ELSE <<Head(out).ent>> \o entities_of(Tail(out))

\* lines 469-477
RECURSIVE normalize(_, _, _)
normalize(out, offset_x_final, offset_y_final) ==
    IF out = <<>> THEN <<>>
    ELSE <<[ent |-> translate(Head(out).ent, offset_x_final, offset_y_final),
            x |-> Head(out).x + offset_x_final,
            y |-> Head(out).y + offset_y_final,
            frag |-> Head(out).frag]>>
         \o normalize(Tail(out), offset_x_final, offset_y_final)

\* What either return statement hands to the caller, lines 463 and 483:
\* the list of (entity, x, y), the width and the height.
returned_tuple(r) == <<r.entities, r.layout_width, r.layout_height>>

\* The whole function, lines 103-483, after load_barra_dxf() has run: `bar`
\* are the globals it left.  Next to the returned triple (entities,
\* layout_width, layout_height) the record keeps the function's log lines
\* (frags, rows), the grouping index, the plan-info fragment, the local
\* copies left in /tmp, and which return statement was taken or whether an
\* exception left the function instead.
generate_single_plan_layout_data(file_ids_and_skus, plano_file, bar) ==
    LET organized == organize(file_ids_and_skus, EmptyDict)
        plano == load_plano(plano_file)
        estimated == estimated_layout_height(organized, plano, bar)
        s0 == [x |-> MARGEM_ESQUERDA, y |-> estimated - MARGEM_INFERIOR,
               out |-> <<>>, frags |-> <<>>, rows |-> <<>>]
        s1 == place_plano(s0, plano)
        s2 == place_rows(s1, organized, bar, Sorted(colors_of(organized)))
        box == calcular_bbox_dxf(entities_of(s2.out))
        base == [entities |-> <<>>, layout_width |-> 0, layout_height |-> 0,
                 path |-> "empty", frags |-> s2.frags, rows |-> s2.rows,
                 organized |-> organized, estimated |-> estimated,
                 offset_x_final |-> 0, offset_y_final |-> 0,
                 plano |-> plano, tmp |-> tmp_files(file_ids_and_skus, {}),
                 raises |-> FALSE]
    IN  IF \E i \in 1..Len(s2.out) : s2.out[i].ent.rigid      \* translate() raises
        THEN [base EXCEPT !.path = "raised", !.raises = TRUE]
        ELSE IF s2.out = <<>> THEN base                              \* line 467
        ELSE IF box[1] = box[3] /\ box[2] = box[4]                   \* line 458
        THEN [base EXCEPT !.entities = s2.out,
                          !.layout_width = MARGEM_ESQUERDA * 2 + LARGURA_MINIMA_EXTRA,
                          !.layout_height = estimated,
                          !.path = "degenerate"]
        ELSE [base EXCEPT !.entities = normalize(s2.out, -box[1], -box[2]),
                          !.layout_width = box[3] - box[1],
                          !.layout_height = box[4] - box[2],
                          !.path = "normalized",
                          !.offset_x_final = -box[1],
                          !.offset_y_final = -box[2]]

----------------------------------------------------------------------------
(* The inputs the model draws from *)

MaxItems == 3       \* items of one plan
MaxSkuLen == 8      \* characters of a string handed to parse_sku
MaxPlans == 2       \* plans of one request

\* SKUs: format-size-hole-material-colour-quantity-style
SKU_D2 == <<"P", "-", "3", "-", "2", "-", "A", "-", "D", "-", "0", "-", "0">>
SKU_D4 == <<"P", "-", "3", "-", "4", "-", "A", "-", "D", "-", "0", "-", "0">>
SKU_B2 == <<"P", "-", "3", "-", "2", "-", "A", "-", "B", "-", "0", "-", "0">>
SKU_Q == <<"Q", "-", "3", "-", "2", "-", "A", "-", "D", "-", "0", "-", "0">>
SKU_D2B == <<"P", "-", "3", "-", "2", "-", "B", "-", "D", "-", "0", "-", "0">>
SKU_S30 == <<"P", "-", "3", "0", "-", "2", "-", "A", "-", "D", "-", "0", "-", "0">>
SKU_B5 == <<"P", "-", "3", "-", "5", "-", "A", "-", "B", "-", "0", "-", "0">>
SKU_3FIELDS == <<"P", "-", "3", "-", "2">>
SKU_NO_MATERIAL == <<"P", "-", "3", "-", "2", "-", "-", "D", "-", "0", "-", "0">>
SKU_NO_HOLE == <<"P", "-", "3", "-", "-", "A", "-", "D", "-", "0", "-", "0">>
SKU_EXAMPLE == <<"P", "L", "A", "C", "-", "3", "0", "1", "0", "-", "2", "F", "H", "-", "A", "C", "-", "D", "O", "U", "-", "0", "7", "0", "-", "0", "0", "0", "0", "0">>

Item(id, sku) == [id_arquivo_drive |-> id, sku |-> sku]

\* Items whose drawings load: two of one leaf (one measured, one 0x0), one
\* of another hole type with its box away from the origin, one of another
\* colour with an insert point, one of another format.
LayoutPool ==
    {Item("ok", SKU_D2), Item("noext", SKU_D2), Item("off", SKU_D4),
     Item("ins", SKU_B2), Item("off", SKU_Q), Item("missing", SKU_D2)}

\* Items that are skipped, each for its own reason, next to two that load.
FetchPool ==
    {Item("ok", SKU_D2), Item("off", SKU_D4), Item("ok", SKU_NO_MATERIAL),
     Item("ok", SKU_3FIELDS), Item("ok", SKU_NO_HOLE),
     Item("missing", SKU_D2), Item("dlfail", SKU_D2), Item("corrupt", SKU_D4)}

DetPool == {Item("ok", SKU_D2), Item("off", SKU_D4)}

\* Items of one colour row that meet at every kind of boundary: two
\* drawings under one SKU, a second SKU of the same leaf, another hole type,
\* another size (a string that extends "3"), another format; and one item
\* of another colour.
RowsPool ==
    {Item("ok", SKU_D2), Item("noext", SKU_D2), Item("off", SKU_D2B),
     Item("off", SKU_D4), Item("ok", SKU_S30), Item("off", SKU_Q),
     Item("ins", SKU_B2)}

\* Items next to a plan-info drawing that is absent or cannot be read
PlanoPool == {Item("ok", SKU_D2), Item("noext", SKU_D4), Item("ins", SKU_B2)}

\* The item lists of the plans of a request: one with a failing item and an
\* item of fallback size, one whose only item fails, one of two measured
\* items, one whose drawing holds an entity that cannot be translated.
ComposerItemLists ==
    {<<Item("missing", SKU_D2), Item("noext", SKU_D2)>>,
     <<Item("missing", SKU_D2)>>,
     <<Item("ok", SKU_D2), Item("off", SKU_D4)>>,
     <<Item("rigid", SKU_D2)>>}

ItemLists(pool, least) == UNION {[1..n -> pool] : n \in least..MaxItems}

\* Plano_Info/<plan_name>.dxf for the plan names of the model
PlanNames == {<<"A">>, <<"B">>, <<"D">>, <<"P">>}

PlanoInfoDir(plan_name) ==
    CASE plan_name = <<"A">> -> Drawing(<<Shape(5000, 5000, 241000, 26500)>>)
      [] plan_name = <<"B">> -> AbsentFile
      [] plan_name = <<"D">> -> Drawing(<<NoExtent>>)
      [] plan_name = <<"P">> -> CorruptFile

\* What Plano_Info/Barra.dxf may be
BarFiles ==
    {AbsentFile, CorruptFile, Drawing(<<Shape(2000, 3000, 10000, 263000)>>),
     Drawing(<<NoExtent>>)}

\* The modelspaces handed to calcular_bbox_dxf: entities whose extent is a
\* box, a horizontal or vertical segment or a point, and entities without one
MaxEnts == 2        \* entities of a modelspace handed to calcular_bbox_dxf

BBoxCoords == {-1000, 0, 2000}

BBoxEntities ==
    {e \in {Shape(x0, y0, x1, y1) :
                x0 \in BBoxCoords, y0 \in BBoxCoords,
                x1 \in BBoxCoords, y1 \in BBoxCoords} :
        e.x0 <= e.x1 /\ e.y0 <= e.y1}
      \cup {NoExtent}

Modelspaces == UNION {[1..n -> BBoxEntities] : n \in 0..MaxEnts}

\* The strings handed to parse_sku
ParseChars == {"-", "A", "2"}
SkuStrings ==
    UNION {[1..n -> ParseChars] : n \in 0..MaxSkuLen} \cup {SKU_EXAMPLE}

----------------------------------------------------------------------------
(* State *)

NoCall == [items |-> <<>>, plan_name |-> <<>>, bar_file |-> AbsentFile]

NoRet == [entities |-> <<>>, layout_width |-> 0, layout_height |-> 0,
          path |-> "none", frags |-> <<>>, rows |-> <<>>,
          organized |-> EmptyDict, estimated |-> 0,
          offset_x_final |-> 0, offset_y_final |-> 0,
          plano |-> [entities |-> <<>>, width |-> 0, height |-> 0,
                     original_min_x |-> 0, original_min_y |-> 0],
          tmp |-> {}, raises |-> FALSE]

NoSnap == [call |-> NoCall, ret |-> NoRet]

NoResponse == [status |-> 0, body |-> [k \in {} |-> ""],
               saved |-> FALSE, upload_called |-> FALSE]

ParseIdle == p_sku = <<>> /\ p_ret = <<>>

BBoxIdle == b_msp = <<>> /\ b_ret = <<>>

EngineInit ==
    /\ barFile \in BarFiles
    /\ barra = BarraInicial
    /\ pc = "idle"
    /\ call = NoCall
    /\ ret = NoRet
    /\ snap = NoSnap

ComposerIdle ==
    /\ cpc = "idle"
    /\ sorted_plans = <<>>
    /\ plan_i = 0
    /\ plan_log = <<>>
    /\ current_y_offset_global = 0
    /\ max_overall_width = 0
    /\ msp = <<>>
    /\ response = NoResponse

----------------------------------------------------------------------------
(* dxf_composer.compor_dxf_personalizado, the composer of one plan *)

ESPACAMENTO_DXF_FURO_DIFERENTE == 200000
MARGEM_SUPERIOR == 50000
FOLHA_ALTURA_MM == 900000

\* dxf_composer.parse_sku, lines 44-58: three values when the SKU has not
\* 7 fields, two values (hole type, colour) otherwise
composer_parse_sku(sku) ==
    LET parts == Split(sku) IN
    IF Len(parts) # 7 THEN <<None, None, None>>
    ELSE <<Str(parts[3]), Str(parts[5])>>

\* dxf_composer.calcular_bbox_dxf, lines 60-85: no test of the box found
composer_calcular_bbox_dxf(entities) ==
    LET seen == {i \in 1..Len(entities) : entities[i].hasExt}
    IN  IF seen = {} THEN <<0, 0, 0, 0>>
        ELSE <<MinOf({entities[i].x0 : i \in seen}), MinOf({entities[i].y0 : i \in seen}),
               MaxOf({entities[i].x1 : i \in seen}), MaxOf({entities[i].y1 : i \in seen})>>

\* lines 231-238: the dict appended to organized_dxfs[colour][hole type]
composer_fragment(sku, file) ==
    LET b == composer_calcular_bbox_dxf(file.ents)
    IN  [entities |-> file.ents, sku |-> sku,
         bbox_width |-> b[3] - b[1], bbox_height |-> b[4] - b[2],
         original_min_x |-> b[1], original_min_y |-> b[2]]

\* One turn of the loop of lines 200-249.  `hole_type, color_code =
\* parse_sku(sku)` raises ValueError when parse_sku returns three values.
composer_process_item(st, item) ==
    LET p == composer_parse_sku(item.sku)
        got == baixar_arquivo_drive(item.file_id)
    IN  IF Len(p) # 2 THEN [st EXCEPT !.raises = TRUE]               \* line 204
        ELSE IF Falsy(p[1]) \/ Falsy(p[2]) THEN st                   \* line 207
        ELSE IF got.raises THEN st                                   \* line 216
        ELSE IF ~got.local.readable THEN st                          \* lines 241-244
        ELSE [st EXCEPT !.organized =
                 leaf_append(@, <<p[2].val, p[1].val>>,
                             composer_fragment(item.sku, got.local))]

RECURSIVE composer_organize(_, _)
composer_organize(items, st) ==
    IF items = <<>> \/ st.raises THEN st
    ELSE composer_organize(Tail(items), composer_process_item(st, Head(items)))

composer_holes_of(organized, c) == {k[2] : k \in {q \in DOMAIN organized : q[1] = c}}

\* color_group[hole_type] of a defaultdict(list): a missing key reads as []
composer_group(organized, c, hole_type) ==
    IF <<c, hole_type>> \in DOMAIN organized THEN organized[<<c, hole_type>>] ELSE <<>>

\* lines 383-412 and 607-636: the items of one hole-type group
RECURSIVE composer_place_group(_, _, _, _, _, _)
composer_place_group(st, dxfs, c, hole_type, first_dxf_in_group, current_y_dxf) ==
    IF dxfs = <<>> THEN st
    ELSE LET dxf_item == Head(dxfs)
             current_x_dxf == IF first_dxf_in_group THEN st.x
                              ELSE st.x + ESPACAMENTO_DXF_MESMO_FURO
             placed == [sku |-> dxf_item.sku, color |-> c, hole_type |-> hole_type,
                        pos_x |-> current_x_dxf, pos_y |-> current_y_dxf,
                        width |-> dxf_item.bbox_width, height |-> dxf_item.bbox_height,
                        entities |-> [i \in 1..Len(dxf_item.entities) |->
                            translate(dxf_item.entities[i],
                                      current_x_dxf - dxf_item.original_min_x,
                                      current_y_dxf - dxf_item.original_min_y)]]
         IN  composer_place_group([out |-> Append(st.out, placed),
                                   x |-> current_x_dxf + dxf_item.bbox_width],
                                  Tail(dxfs), c, hole_type, FALSE, current_y_dxf)

\* lines 372-414 and 597-638: the hole types of one colour row
RECURSIVE composer_place_holes(_, _, _, _, _, _)
composer_place_holes(st, organized, c, hole_types, first_hole_type_in_line, current_y_dxf) ==
    IF hole_types = <<>> THEN st
    ELSE LET s1 == IF first_hole_type_in_line THEN st
                   ELSE [st EXCEPT !.x = @ + ESPACAMENTO_DXF_FURO_DIFERENTE]
             s2 == composer_place_group(
                       s1, sorted_by_sku(composer_group(organized, c, Head(hole_types))),
                       c, Head(hole_types), TRUE, current_y_dxf)
         IN  composer_place_holes(s2, organized, c, Tail(hole_types), FALSE, current_y_dxf)

\* lines 416-422 and 640-645
composer_row_height(organized, c) ==
    MaxOf({0} \cup UNION {{organized[k][i].bbox_height : i \in 1..Len(organized[k])}
                          : k \in {q \in DOMAIN organized : q[1] = c}})

\* The first pass, lines 364-422: every colour with its own sorted hole
\* types.  It leaves the name sorted_hole_types bound to those of the
\* last colour.
RECURSIVE composer_first_pass(_, _, _, _)
composer_first_pass(out, organized, colors, current_y_dxf) ==
    IF colors = <<>> THEN out
    ELSE LET c == Head(colors)
             sorted_hole_types == Sorted(composer_holes_of(organized, c))
             s1 == composer_place_holes([out |-> out, x |-> MARGEM_ESQUERDA], organized,
                                        c, sorted_hole_types, TRUE, current_y_dxf)
         IN  composer_first_pass(s1.out, organized, Tail(colors),
                 current_y_dxf + composer_row_height(organized, c) + ESPACAMENTO_LINHA_COR)

\* The re-insertion pass, lines 592-645: the loop over the colours reads
\* sorted_hole_types as the first pass left it.
RECURSIVE composer_reinsertion_pass(_, _, _, _, _)
composer_reinsertion_pass(out, organized, colors, sorted_hole_types, current_y_dxf) ==
    IF colors = <<>> THEN out
    ELSE LET c == Head(colors)
             s1 == composer_place_holes([out |-> out, x |-> MARGEM_ESQUERDA], organized,
                                        c, sorted_hole_types, TRUE, current_y_dxf)
         IN  composer_reinsertion_pass(s1.out, organized, Tail(colors), sorted_hole_types,
                 current_y_dxf + composer_row_height(organized, c) + ESPACAMENTO_LINHA_COR)

NoLegacyRet ==
    [at |-> "none", raises |-> FALSE, organized |-> EmptyDict, msp |-> <<>>,
     final_msp |-> <<>>, final_plano_insert_y |-> 0]

\* The whole function, lines 168-656.  It never reaches its return: the
\* module does not import datetime, so line 648 raises NameError after the
\* layout is built; `at` tells where the call left the function, msp and
\* final_msp what the two documents held at that point.
compor_dxf_personalizado(file_ids_and_skus, plano_file) ==
    LET o == composer_organize(file_ids_and_skus,
                               [organized |-> EmptyDict, raises |-> FALSE])
        organized == o.organized
        b == composer_calcular_bbox_dxf(plano_file.ents)
        plano_height == b[4] - b[2]
        sorted_colors == Sorted({k[1] : k \in DOMAIN organized})
        msp1 == composer_first_pass(<<>>, organized, sorted_colors, MARGEM_INFERIOR)
        sorted_hole_types ==
            IF sorted_colors = <<>> THEN <<>>
            ELSE Sorted(composer_holes_of(organized, sorted_colors[Len(sorted_colors)]))
        min_y_items_positioned ==
            IF msp1 = <<>> THEN MARGEM_INFERIOR
            ELSE MinOf({msp1[i].pos_y : i \in 1..Len(msp1)})
        max_y_items_positioned ==
            IF msp1 = <<>> THEN MARGEM_INFERIOR
            ELSE MaxOf({msp1[i].pos_y + msp1[i].height : i \in 1..Len(msp1)})
        plano_insert_y == max_y_items_positioned + ESPACAMENTO_PLANO_COR
        current_max_y_layout ==
            MaxOf({plano_insert_y + plano_height}
                  \cup {msp1[i].pos_y + msp1[i].height : i \in 1..Len(msp1)})
        vertical_offset_to_align_top ==
            (FOLHA_ALTURA_MM - MARGEM_SUPERIOR) - current_max_y_layout
    IN  IF o.raises
        THEN [NoLegacyRet EXCEPT !.at = "line 204", !.raises = TRUE,
                                 !.organized = organized]
        ELSE IF ~plano_file.exists \/ ~plano_file.readable          \* lines 254-312
        THEN [NoLegacyRet EXCEPT !.at = "line 648", !.raises = TRUE,
                                 !.organized = organized]
        ELSE [at |-> "line 648", raises |-> TRUE, organized |-> organized,
              msp |-> msp1,
              final_msp |-> composer_reinsertion_pass(
                                <<>>, organized, sorted_colors, sorted_hole_types,
                                min_y_items_positioned + vertical_offset_to_align_top),
              final_plano_insert_y |-> plano_insert_y + vertical_offset_to_align_top]

LegacyItem(id, sku) == [file_id |-> id, sku |-> sku]

\* Items of two colours whose hole types differ, and a SKU of three fields
LegacyPool ==
    {LegacyItem("ok", SKU_D2), LegacyItem("off", SKU_D4), LegacyItem("ins", SKU_B2),
     LegacyItem("off", SKU_B5), LegacyItem("ok", SKU_3FIELDS)}

NoLegacyCall == [items |-> <<>>, plan_name |-> <<>>]

LegacyIdle == l_call = NoLegacyCall /\ l_ret = NoLegacyRet

----------------------------------------------------------------------------
(* Actions *)

\* One call parse_sku(sku)
ParseSku ==
    /\ p_ret = <<>>
    /\ p_ret' = parse_sku(p_sku)
    /\ UNCHANGED <<p_sku, bboxVars, legacyVars, engineVars, composerVars>>

\* One call calcular_bbox_dxf(msp)
CalcularBBox ==
    /\ b_ret = <<>>
    /\ b_ret' = calcular_bbox_dxf(b_msp)
    /\ UNCHANGED <<b_msp, parseVars, engineVars, composerVars, legacyVars>>

\* One call generate_single_plan_layout_data(items, plan_name, folder): it
\* first runs load_barra_dxf() on the module globals, line 127.
Generate(items, plan_name) ==
    /\ pc = "idle"
    /\ barra' = load_barra_dxf(barra, barFile)
    /\ call' = [items |-> items, plan_name |-> plan_name, bar_file |-> barFile]
    /\ ret' = generate_single_plan_layout_data(items, PlanoInfoDir(plan_name), barra')
    /\ pc' = "returned"
    /\ UNCHANGED <<barFile, snap, parseVars, bboxVars, legacyVars, composerVars>>

\* The caller drops the result
Return ==
    /\ pc = "returned"
    /\ pc' = "idle"
    /\ call' = NoCall
    /\ ret' = NoRet
    /\ UNCHANGED <<barFile, barra, snap, parseVars, bboxVars, legacyVars, composerVars>>

\* Between two calls the bar file is deployed, replaced or removed
ChangeBarFile ==
    /\ pc = "idle"
    /\ cpc = "idle"
    /\ barFile' \in BarFiles \ {barFile}
    /\ UNCHANGED <<barra, pc, call, ret, snap, parseVars, bboxVars, legacyVars, composerVars>>

\* The first of two calls that are compared is kept
Keep ==
    /\ pc = "returned"
    /\ snap = NoSnap
    /\ snap' = [call |-> call, ret |-> ret]
    /\ UNCHANGED <<barFile, barra, pc, call, ret, parseVars, bboxVars, legacyVars, composerVars>>

----------------------------------------------------------------------------
(* main.compor_plano *)

\* sorted(entrada.plans, key=lambda p: p.plan_name), line 88: stable
RECURSIVE sorted_by_plan_name(_)
sorted_by_plan_name(names) ==
    IF names = <<>> THEN <<>>
    ELSE LET n == Len(names)
             front == sorted_by_plan_name(SubSeq(names, 1, n - 1))
             e == names[n]
             k == Cardinality({i \in 1..Len(front) : StrLeq(front[i], e)})
         IN  SubSeq(front, 1, k) \o <<e>> \o SubSeq(front, k + 1, Len(front))

\* lines 113-119: new_ent.translate(0, current_y_offset_global, 0)
RECURSIVE copy_to_msp(_, _)
copy_to_msp(entities, y_offset) ==
    IF entities = <<>> THEN <<>>
    ELSE <<translate(Head(entities).ent, 0, y_offset)>>
         \o copy_to_msp(Tail(entities), y_offset)

\* lines 69-88: the request arrives; its plans are sorted by name
ReceiveRequest ==
    /\ cpc = "idle"
    /\ pc = "idle"
    /\ \E n \in 1..MaxPlans : \E names \in [1..n -> {<<"A">>, <<"B">>}] :
           sorted_plans' = sorted_by_plan_name(names)
    /\ plan_i' = 0
    /\ plan_log' = <<>>
    /\ current_y_offset_global' = 0
    /\ max_overall_width' = 0
    /\ msp' = <<>>
    /\ response' = NoResponse
    /\ cpc' = "loop"
    /\ UNCHANGED <<engineVars, parseVars, bboxVars, legacyVars>>

\* lines 91-137: one turn of the loop over sorted_plans.  An exception that
\* leaves generate_single_plan_layout_data is answered with a 500 (lines
\* 135-137), an empty list skips the plan (105-107), anything else is copied
\* into the document at the current offset.
ProcessPlan ==
    /\ cpc = "loop"
    /\ plan_i < Len(sorted_plans)
    /\ barra' = load_barra_dxf(barra, barFile)
    /\ \E items \in ComposerItemLists :
         /\ call' = [items |-> items, plan_name |-> sorted_plans[plan_i + 1],
                     bar_file |-> barFile]
         /\ ret' = generate_single_plan_layout_data(
                       items, PlanoInfoDir(sorted_plans[plan_i + 1]), barra')
    /\ plan_log' = Append(plan_log,
           [plan_name |-> sorted_plans[plan_i + 1],
            items |-> call'.items,
            raised |-> ret'.raises,
            n_entities |-> Len(ret'.entities),
            layout_height |-> ret'.layout_height,
            y_offset |-> current_y_offset_global])
    /\ IF ret'.raises
       THEN /\ response' = [status |-> 500, body |-> [detail |-> "plan"],
                            saved |-> FALSE, upload_called |-> FALSE]
            /\ cpc' = "responded"
            /\ UNCHANGED <<max_overall_width, msp, current_y_offset_global>>
       ELSE /\ UNCHANGED <<response, cpc>>
            /\ IF ret'.entities = <<>>                     \* line 105: continue
               THEN UNCHANGED <<max_overall_width, msp, current_y_offset_global>>
               ELSE /\ max_overall_width' = Max2(max_overall_width, ret'.layout_width)
                    /\ msp' = Append(msp,
                           [plan_name |-> sorted_plans[plan_i + 1],
                            y_offset |-> current_y_offset_global,
                            layout_width |-> ret'.layout_width,
                            layout_height |-> ret'.layout_height,
                            frags |-> ret'.frags,
                            offset_x_final |-> ret'.offset_x_final,
                            offset_y_final |-> ret'.offset_y_final,
                            entities |-> copy_to_msp(ret'.entities,
                                                     current_y_offset_global)])
                    /\ current_y_offset_global' =
                           current_y_offset_global + ret'.layout_height
                             + ESPACAMENTO_LINHA_COR
    /\ plan_i' = plan_i + 1
    /\ UNCHANGED <<barFile, pc, snap, sorted_plans, parseVars, bboxVars, legacyVars>>

\* lines 139-186: what the request answers once the loop is through.  An
\* empty document is a 400 before anything is saved; otherwise the document
\* is saved and upload_to_drive is called, and the answer carries a message
\* and the URL, or a 500 when the upload raises.
finish_response_uploads_anyway(doc, uploaded) ==
    IF uploaded
    THEN [status |-> 200, body |-> [message |-> "ok", dxf_url |-> "url"],
          saved |-> TRUE, upload_called |-> TRUE]
    ELSE [status |-> 500, body |-> [detail |-> "upload"],
          saved |-> TRUE, upload_called |-> TRUE]

finish_response(doc, uploaded) ==
    IF doc = <<>>                                             \* line 140
    THEN [status |-> 400, body |-> [detail |-> "no entity"],
          saved |-> FALSE, upload_called |-> FALSE]
    ELSE IF uploaded
    THEN [status |-> 200, body |-> [message |-> "ok", dxf_url |-> "url"],
          saved |-> TRUE, upload_called |-> TRUE]
    ELSE [status |-> 500, body |-> [detail |-> "upload"],
          saved |-> TRUE, upload_called |-> TRUE]

FinishRequest ==
    /\ cpc = "loop"
    /\ plan_i = Len(sorted_plans)
    /\ \E uploaded \in BOOLEAN : response' = finish_response(msp, uploaded)
    /\ cpc' = "responded"
    /\ UNCHANGED <<engineVars, sorted_plans, plan_i, plan_log, current_y_offset_global,
                   max_overall_width, msp, parseVars, bboxVars, legacyVars>>

\* the handler has answered; the process waits for the next request
NextRequest ==
    /\ cpc = "responded"
    /\ cpc' = "idle"
    /\ sorted_plans' = <<>>
    /\ plan_i' = 0
    /\ plan_log' = <<>>
    /\ current_y_offset_global' = 0
    /\ max_overall_width' = 0
    /\ msp' = <<>>
    /\ response' = NoResponse
    /\ call' = NoCall
    /\ ret' = NoRet
    /\ UNCHANGED <<barFile, barra, pc, snap, parseVars, bboxVars, legacyVars>>

GenerateLayout ==
    \E items \in ItemLists(LayoutPool, 0), plan_name \in PlanNames \ {<<"P">>} :
        Generate(items, plan_name)

GenerateFetch ==
    \E items \in ItemLists(FetchPool, 0), plan_name \in {<<"P">>} :
        Generate(items, plan_name)

GenerateDet ==
    \E items \in ItemLists(DetPool, 1), plan_name \in {<<"B">>} :
        Generate(items, plan_name)

GenerateRows ==
    \E items \in ItemLists(RowsPool, 0), plan_name \in {<<"B">>} :
        Generate(items, plan_name)

GeneratePlano ==
    \E items \in ItemLists(PlanoPool, 0), plan_name \in {<<"B">>, <<"P">>} :
        Generate(items, plan_name)

\* One call compor_dxf_personalizado(items, plan_name, folder)
LegacyCompose ==
    /\ l_ret = NoLegacyRet
    /\ \E items \in ItemLists(LegacyPool, 0), plan_name \in {<<"A">>, <<"B">>} :
          /\ l_call' = [items |-> items, plan_name |-> plan_name]
          /\ l_ret' = compor_dxf_personalizado(items, PlanoInfoDir(plan_name))
    /\ UNCHANGED <<parseVars, bboxVars, engineVars, composerVars>>

\* The caller drops what the call left
LegacyReturn ==
    /\ l_ret # NoLegacyRet
    /\ l_call' = NoLegacyCall
    /\ l_ret' = NoLegacyRet
    /\ UNCHANGED <<parseVars, bboxVars, engineVars, composerVars>>

----------------------------------------------------------------------------
(* Specifications *)

\* the layout engine, over items that load, for each bar file the process
\* may find at its first call
Init == ParseIdle /\ BBoxIdle /\ LegacyIdle /\ EngineInit /\ ComposerIdle
Next == GenerateLayout \/ Return
Spec == Init /\ [][Next]_vars

\* the layout engine, over items that fail
NextFetch == GenerateFetch \/ Return
SpecFetch == Init /\ [][NextFetch]_vars

\* two calls of one process side by side, the bar file changing between calls
NextDet == GenerateDet \/ Keep \/ Return \/ ChangeBarFile
SpecDet == Init /\ [][NextDet]_vars

\* one request after the other
NextComposer == ReceiveRequest \/ ProcessPlan \/ FinishRequest \/ NextRequest
                  \/ ChangeBarFile
SpecComposer == Init /\ [][NextComposer]_vars

\* parse_sku over all short strings
InitParse ==
    /\ p_sku \in SkuStrings
    /\ p_ret = <<>>
    /\ BBoxIdle
    /\ barFile = AbsentFile
    /\ barra = BarraInicial
    /\ pc = "idle"
    /\ call = NoCall
    /\ ret = NoRet
    /\ snap = NoSnap
    /\ ComposerIdle
    /\ LegacyIdle
NextParse == ParseSku
SpecParse == InitParse /\ [][NextParse]_vars

\* calcular_bbox_dxf over all small modelspaces
InitBBox ==
    /\ b_msp \in Modelspaces
    /\ b_ret = <<>>
    /\ ParseIdle
    /\ EngineInit
    /\ barFile = AbsentFile
    /\ ComposerIdle
    /\ LegacyIdle
NextBBox == CalcularBBox
SpecBBox == InitBBox /\ [][NextBBox]_vars

\* the rows of the layout engine, with and without a bar
InitRows == Init /\ barFile \in {AbsentFile, Drawing(<<Shape(2000, 3000, 10000, 263000)>>)}
NextRows == GenerateRows \/ Return
SpecRows == InitRows /\ [][NextRows]_vars

\* the layout engine without a usable plan-info drawing
NextPlano == GeneratePlano \/ Return
SpecPlano == Init /\ [][NextPlano]_vars

\* the composer of one plan
InitLegacy == Init /\ barFile = AbsentFile
NextLegacy == LegacyCompose \/ LegacyReturn
SpecLegacy == InitLegacy /\ [][NextLegacy]_vars

----------------------------------------------------------------------------
(* What the properties are stated with *)

\* The fields of a string, read off the positions of its hyphens.
HyphensBefore(s, i) == Cardinality({j \in 1..(i - 1) : s[j] = "-"})
FieldCount(s) == HyphensBefore(s, Len(s) + 1) + 1
FieldOf(s, k) == SelectSeq([i \in 1..Len(s) |-> IF s[i] # "-" /\ HyphensBefore(s, i) = k - 1
                                                THEN <<s[i]>> ELSE <<>>],
                           LAMBDA c : c # <<>>)
FieldText(s, k) == [i \in 1..Len(FieldOf(s, k)) |-> FieldOf(s, k)[i][1]]

\* The four parts the layout consumes are all there.
ConsumedFieldsPresent(s) ==
    /\ FieldCount(s) = 7
    /\ \A k \in {1, 2, 3, 5} : FieldText(s, k) # <<>>

\* The item's drawing is listed, downloads and reads.
DrawingLoads(item) ==
    /\ DriveFolder(item.id_arquivo_drive).listed
    /\ DriveFolder(item.id_arquivo_drive).media
    /\ DriveFolder(item.id_arquivo_drive).file.readable

ItemLoads(item) == ConsumedFieldsPresent(item.sku) /\ DrawingLoads(item)

\* The log lines of items / of everything placed in colour rows
ItemLines(r) == {j \in 1..Len(r.frags) : r.frags[j].kind = "item"}
RowLines(r) == {j \in 1..Len(r.frags) : r.frags[j].kind \in {"item", "barra"}}

\* What the caller gets: (entities with their recorded x, y; width; height)
Returned(r) == <<r.entities, r.layout_width, r.layout_height>>

Without(seq, i) == SubSeq(seq, 1, i - 1) \o SubSeq(seq, i + 1, Len(seq))

\* The failed-items list of a response body, empty when the body has none
failed_items(resp) ==
    IF "failed_items" \in DOMAIN resp.body THEN resp.body.failed_items ELSE <<>>

----------------------------------------------------------------------------
(* Properties *)

\* C1: parse_sku returns fields 1, 2, 3 and 5 of a string of exactly seven
\* hyphen-separated fields, and four None for any other field count.
C1_ParseSkuFields ==
    p_ret # <<>> =>
        IF FieldCount(p_sku) = 7
        THEN p_ret = <<Str(FieldText(p_sku, 1)), Str(FieldText(p_sku, 2)),
                       Str(FieldText(p_sku, 3)), Str(FieldText(p_sku, 5))>>
        ELSE p_ret = <<None, None, None, None>>

C1_Witness ==
    /\ p_sku = SKU_EXAMPLE
    /\ p_ret = <<Str(<<"P", "L", "A", "C">>), Str(<<"3", "0", "1", "0">>),
                 Str(<<"2", "F", "H">>), Str(<<"D", "O", "U">>)>>

\* C2 as claimed: an item whose SKU has seven fields of which any one is
\* empty (material, quantity and art-style included) is skipped.
C2_AnyEmptyFieldSkips ==
    pc = "returned" =>
        \A i \in 1..Len(call.items) :
            (/\ FieldCount(call.items[i].sku) = 7
             /\ \E k \in 1..7 : FieldText(call.items[i].sku, k) = <<>>)
            => \A j \in ItemLines(ret) : ret.frags[j].sku # call.items[i].sku

\* C2, amended: an item is skipped for its SKU exactly when the SKU has not
\* seven fields or its format, size, hole-type or colour field is empty; an
\* empty material, quantity or art-style field does not skip it.
C2_ConsumedFieldsDecide ==
    pc = "returned" =>
        \A i \in 1..Len(call.items) :
            LET placed == \E j \in ItemLines(ret) : ret.frags[j].sku = call.items[i].sku
            IN  /\ ~ConsumedFieldsPresent(call.items[i].sku) => ~placed
                /\ (ConsumedFieldsPresent(call.items[i].sku)
                      /\ DrawingLoads(call.items[i])) => placed

C2_Witness ==
    /\ pc = "returned"
    /\ \E i, k \in 1..Len(call.items) :
         /\ call.items[i] = Item("ok", SKU_NO_MATERIAL)
         /\ call.items[k] = Item("ok", SKU_NO_HOLE)
         /\ \E j \in ItemLines(ret) : ret.frags[j].sku = SKU_NO_MATERIAL
         /\ \A j \in ItemLines(ret) : ret.frags[j].sku # SKU_NO_HOLE

\* C3: every item that parses and loads is in exactly one leaf of the
\* grouping index, the leaf of its colour, format, size and hole type, and
\* is placed exactly once; items of one SKU stay separate fragments.
C3_OneFragmentPerItem ==
    pc = "returned" =>
        LET loaded == {i \in 1..Len(call.items) : ItemLoads(call.items[i])}
            leaves == DOMAIN ret.organized
        IN  /\ Cardinality(ItemLines(ret)) = Cardinality(loaded)
            /\ \A i \in loaded :
                 LET it == call.items[i]
                     key == <<FieldText(it.sku, 5), FieldText(it.sku, 1),
                              FieldText(it.sku, 2), FieldText(it.sku, 3)>>
                     ents == DriveFolder(it.id_arquivo_drive).file.ents
                     same == {k \in loaded : call.items[k] = it}
                     sameSku == {k \in loaded : call.items[k].sku = it.sku}
                 IN  /\ key \in leaves
                     /\ Cardinality({n \in 1..Len(ret.organized[key]) :
                            /\ ret.organized[key][n].sku = it.sku
                            /\ ret.organized[key][n].entities = ents})
                          = Cardinality(same)
                     /\ \A q \in leaves \ {key} :
                            \A n \in 1..Len(ret.organized[q]) :
                                ret.organized[q][n].sku # it.sku
                     /\ Cardinality({j \in ItemLines(ret) :
                            ret.frags[j].sku = it.sku /\ ret.frags[j].key = key})
                          = Cardinality(sameSku)
            /\ \A q \in leaves : Len(ret.organized[q]) > 0
            /\ \A j \in ItemLines(ret) :
                 \E i \in loaded : call.items[i].sku = ret.frags[j].sku

C3_Witness ==
    /\ pc = "returned"
    /\ Len(call.items) = 3
    /\ call.items[1] = call.items[3]
    /\ ItemLoads(call.items[1])
    /\ ~ItemLoads(call.items[2])
    /\ Cardinality(ItemLines(ret)) = 2

\* C4: for a request of one plan, the placed item fragments and the failed
\* identifiers the response reports add up to the plan's parseable items.
C4_FailedItemsReported ==
    (cpc = "responded" /\ response.status = 200 /\ Len(sorted_plans) = 1) =>
        Cardinality(ItemLines(ret)) + Len(failed_items(response))
          = Cardinality({i \in 1..Len(call.items) :
                           ConsumedFieldsPresent(call.items[i].sku)})

\* A request of one plan with an item Drive does not list and one that loads:
\* the answer is a 200 whose body has the message and the URL only.
C4_FailingInput ==
    /\ cpc = "responded"
    /\ response.status = 200
    /\ Len(sorted_plans) = 1
    /\ call.items = <<Item("missing", SKU_D2), Item("noext", SKU_D2)>>
    /\ DOMAIN response.body = {"message", "dxf_url"}
    /\ Cardinality(ItemLines(ret)) = 1

\* C5: a call with a failing item returns what the call without that item
\* returns.
C5_FailureIsolation ==
    pc = "returned" =>
        \A i \in 1..Len(call.items) :
            ~ItemLoads(call.items[i]) =>
                Returned(ret) =
                    Returned(generate_single_plan_layout_data(
                        Without(call.items, i), PlanoInfoDir(call.plan_name), barra))

C5_Witness ==
    /\ pc = "returned"
    /\ \E i, k, m \in 1..Len(call.items) :
         /\ call.items[i].sku = SKU_3FIELDS
         /\ call.items[k].id_arquivo_drive \in {"missing", "dlfail", "corrupt"}
         /\ ItemLoads(call.items[m])
    /\ ret.path = "normalized"

\* The colour row a log line belongs to, and that row's record
RowOf(r, j) == CHOOSE row \in {r.rows[n] : n \in 1..Len(r.rows)} :
                   row.color = r.frags[j].key[1]

SameRow(r, j, k) == r.frags[j].key[1] = r.frags[k].key[1]

\* C6: in a colour row the reserved intervals [x, x+w) of two fragments are
\* disjoint, and so are the measured extents of their entities; an item
\* follows the previous item of its leaf at exactly the same-group spacing,
\* and the first item of a leaf sits at the cursor: the left margin, or the
\* end of the separator before it.
C6_NoHorizontalOverlap ==
    pc = "returned" =>
        LET f == ret.frags IN
        /\ \A j, k \in RowLines(ret) :
             (j # k /\ SameRow(ret, j, k)) =>
                /\ f[j].w > 0
                /\ f[j].x + f[j].w <= f[k].x \/ f[k].x + f[k].w <= f[j].x
        /\ \A p, q \in 1..Len(ret.entities) :
             LET a == ret.entities[p]
                 b == ret.entities[q]
             IN  (/\ a.frag # b.frag
                  /\ a.frag \in RowLines(ret) /\ b.frag \in RowLines(ret)
                  /\ SameRow(ret, a.frag, b.frag)
                  /\ a.ent.hasExt /\ b.ent.hasExt)
                 => (a.ent.x1 <= b.ent.x0 \/ b.ent.x1 <= a.ent.x0)
        /\ \A j \in ItemLines(ret) :
             IF j > 1 /\ (j - 1) \in RowLines(ret) /\ SameRow(ret, j, j - 1)
             THEN IF f[j - 1].kind = "item" /\ f[j - 1].key = f[j].key
                  THEN f[j].x = f[j - 1].x + f[j - 1].w + 100000
                  ELSE IF f[j - 1].kind = "barra"
                  THEN f[j].x = f[j - 1].x + f[j - 1].w + ESPACAMENTO_SEPARADOR
                  ELSE f[j].x = f[j - 1].x + f[j - 1].w + ESPACAMENTO_DXF_MESMO_FURO
             ELSE f[j].x = MARGEM_ESQUERDA

C6_Witness ==
    /\ pc = "returned"
    /\ ret.path = "normalized"
    /\ \E j \in ItemLines(ret) :
         /\ (j + 1) \in ItemLines(ret)
         /\ ret.frags[j].key = ret.frags[j + 1].key
         /\ (j + 2) \in RowLines(ret)
         /\ ret.frags[j + 2].kind = "barra"
         /\ (j + 3) \in ItemLines(ret)
         /\ SameRow(ret, j, j + 3)

\* C7: every item and bar of a colour row lies between the row's baseline
\* and baseline + row height, as reserved and as measured.
C7_RowHeight ==
    pc = "returned" =>
        /\ \A j \in RowLines(ret) :
             /\ \E n \in 1..Len(ret.rows) : ret.rows[n].color = ret.frags[j].key[1]
             /\ ret.frags[j].y >= RowOf(ret, j).base_y
             /\ ret.frags[j].y + ret.frags[j].h
                  <= RowOf(ret, j).base_y + RowOf(ret, j).height
        /\ \A p \in 1..Len(ret.entities) :
             LET a == ret.entities[p] IN
             (a.frag \in RowLines(ret) /\ a.ent.hasExt) =>
                /\ a.ent.y0 >= RowOf(ret, a.frag).base_y + ret.offset_y_final
                /\ a.ent.y1 <= RowOf(ret, a.frag).base_y + RowOf(ret, a.frag).height
                                 + ret.offset_y_final

C7_Witness ==
    /\ pc = "returned"
    /\ \E j, k \in RowLines(ret) :
         /\ SameRow(ret, j, k)
         /\ ret.frags[j].kind = "barra"
         /\ ret.frags[k].kind = "item"
         /\ ret.frags[j].h = RowOf(ret, j).height
         /\ \A m \in ItemLines(ret) : ret.frags[m].h < ret.frags[j].h

\* C8: a non-empty result has its smallest recorded x and its smallest
\* recorded y at 0, and its width and height are those of the box around
\* everything placed.
C8_Normalized ==
    (pc = "returned" /\ ret.entities # <<>>) =>
        LET ps == 1..Len(ret.entities)
            fs == 1..Len(ret.frags)
        IN  /\ MinOf({ret.entities[p].x : p \in ps}) = 0
            /\ MinOf({ret.entities[p].y : p \in ps}) = 0
            /\ ret.layout_width = MaxOf({ret.frags[j].x + ret.frags[j].w : j \in fs})
                                    - MinOf({ret.frags[j].x : j \in fs})
            /\ ret.layout_height = MaxOf({ret.frags[j].y + ret.frags[j].h : j \in fs})
                                     - MinOf({ret.frags[j].y : j \in fs})

\* Two items whose drawings have no measurable extent, no plan-info drawing:
\* the placements come back as placed, at x = 50 and y = -50, with width 200.
C8_FailingInput ==
    /\ pc = "returned"
    /\ call.items = <<Item("noext", SKU_D2), Item("noext", SKU_D2)>>
    /\ call.plan_name = <<"B">>
    /\ ret.path = "degenerate"
    /\ ret.entities[1].x = 50000 /\ ret.entities[1].y = -50000
    /\ ret.entities[2].x = 279000
    /\ ret.layout_width = 200000

\* C9: the x, y recorded with a placed entity are the lower-left corner of
\* its fragment's box in the normalized space.
C9_RecordedIsLowerLeft ==
    (pc = "returned" /\ ret.path = "normalized") =>
        \A p \in 1..Len(ret.entities) :
            /\ ret.entities[p].x
                 = ret.frags[ret.entities[p].frag].x + ret.offset_x_final
            /\ ret.entities[p].y
                 = ret.frags[ret.entities[p].frag].y + ret.offset_y_final

\* One item whose box starts at (10, 20): its box lands at (0, 0) of the
\* normalized space and the recorded pair is (-10, -20).
C9_FailingInput ==
    /\ pc = "returned"
    /\ call.items = <<Item("off", SKU_D4)>>
    /\ call.plan_name = <<"B">>
    /\ ret.path = "normalized"
    /\ ret.entities[1].ent.x0 = 0 /\ ret.entities[1].ent.y0 = 0
    /\ ret.entities[1].x = -10000 /\ ret.entities[1].y = -20000

\* C10: two calls of one process with the same items, the same plan and the
\* same bar file on disk return the same placements, width and height.
C10_Deterministic ==
    (/\ pc = "returned"
     /\ snap # NoSnap
     /\ snap.call.items = call.items
     /\ snap.call.plan_name = call.plan_name
     /\ snap.call.bar_file = call.bar_file)
    => Returned(snap.ret) = Returned(ret)

\* Both calls find no bar file; the first runs with the cache empty, the
\* second after a call in between has filled it, and puts a bar between the
\* two hole types.
C10_FailingInput ==
    /\ pc = "returned"
    /\ snap # NoSnap
    /\ snap.call.items = call.items
    /\ snap.call.plan_name = call.plan_name
    /\ snap.call.bar_file = AbsentFile /\ call.bar_file = AbsentFile
    /\ barra.entities # <<>>
    /\ call.items = <<Item("ok", SKU_D2), Item("off", SKU_D4)>>
    /\ \A j \in 1..Len(snap.ret.frags) : snap.ret.frags[j].kind # "barra"
    /\ \E j \in 1..Len(ret.frags) : ret.frags[j].kind = "barra"
    /\ Returned(snap.ret) # Returned(ret)

----------------------------------------------------------------------------
(* Properties of the composer and of the helpers *)

\* The rectangle reserved in the shared document for log line j of the
\* plan copied as msp[m]
DocRect(m, j) ==
    [x |-> msp[m].frags[j].x + msp[m].offset_x_final,
     y |-> msp[m].frags[j].y + msp[m].offset_y_final + msp[m].y_offset,
     w |-> msp[m].frags[j].w,
     h |-> msp[m].frags[j].h]

Disjoint(a, b) ==
    \/ a.x + a.w <= b.x \/ b.x + b.w <= a.x
    \/ a.y + a.h <= b.y \/ b.y + b.h <= a.y

RECURSIVE StackedBelow(_)
StackedBelow(m) ==
    IF m = 1 THEN 0
    ELSE StackedBelow(m - 1) + msp[m - 1].layout_height + 200000

\* C11: the plans of a request are copied in ascending plan_name order, each
\* at the sum of (layout_height + 200) of the plans copied before it, and
\* the rectangles reserved for the fragments of two plans never overlap.
C11_PlansNeverOverlap ==
    /\ \A m, n \in 1..Len(msp) :
         m < n => StrLeq(msp[m].plan_name, msp[n].plan_name)
    /\ \A m \in 1..Len(msp) : msp[m].y_offset = StackedBelow(m)
    /\ \A m, n \in 1..Len(msp) :
         m # n =>
            \A j \in 1..Len(msp[m].frags), k \in 1..Len(msp[n].frags) :
                Disjoint(DocRect(m, j), DocRect(n, k))

\* Two plans "A", each with a plan-info drawing of measured size and one item
\* of fallback size: the second plan is copied 221.5 above the first, and the
\* rectangle of its item covers part of the first plan's plan-info rectangle.
C11_FailingInput ==
    /\ Len(msp) = 2
    /\ msp[1].plan_name = <<"A">> /\ msp[2].plan_name = <<"A">>
    /\ Len(msp[1].frags) = 2 /\ Len(msp[2].frags) = 2
    /\ msp[1].frags[1].kind = "plano" /\ msp[2].frags[2].kind = "item"
    /\ msp[2].frags[2].w = ITEM_DXF_FIXED_WIDTH_MM
    /\ msp[2].y_offset = 221500
    /\ ~Disjoint(DocRect(1, 1), DocRect(2, 2))

\* C12: when every plan of a request returns an empty placement list the
\* request ends with a 400, nothing saved and upload_to_drive not called;
\* upload_to_drive is called only with at least one entity in the document.
C12_TotalBatchFailure ==
    /\ (/\ cpc = "responded"
        /\ Len(plan_log) = Len(sorted_plans)
        /\ \A i \in 1..Len(plan_log) :
              ~plan_log[i].raised /\ plan_log[i].n_entities = 0)
       => (response.status = 400 /\ ~response.saved /\ ~response.upload_called)
    /\ response.upload_called =>
          \E i \in 1..Len(plan_log) :
              /\ plan_log[i].n_entities > 0
              /\ \E m \in 1..Len(msp) :
                    /\ msp[m].plan_name = plan_log[i].plan_name
                    /\ msp[m].y_offset = plan_log[i].y_offset
                    /\ Len(msp[m].entities) = plan_log[i].n_entities

C12_Witness ==
    /\ cpc = "responded"
    /\ Len(sorted_plans) = 2
    /\ Len(plan_log) = 2
    /\ \A i \in 1..2 : ~plan_log[i].raised /\ plan_log[i].n_entities = 0
    /\ response.status = 400

\* The plans a response body reports as skipped, empty when it reports none
skipped_plans(resp) ==
    IF "skipped_plans" \in DOMAIN resp.body THEN resp.body.skipped_plans ELSE <<>>

\* A plan without plan-info drawing and without an item that loads
NothingToPlace(entry) ==
    /\ load_plano(PlanoInfoDir(entry.plan_name)).entities = <<>>
    /\ \A i \in 1..Len(entry.items) : ~ItemLoads(entry.items[i])

\* C13: a plan with no plan-info and no loaded item returns ([], 0, 0)
\* without raising; the request goes on with the next plan at the same
\* offset, and the response names the plan as skipped.
C13_EmptyPlanRecorded ==
    /\ \A i \in 1..Len(plan_log) :
         NothingToPlace(plan_log[i]) =>
            /\ ~plan_log[i].raised
            /\ plan_log[i].n_entities = 0 /\ plan_log[i].layout_height = 0
            /\ (i < Len(plan_log) => plan_log[i + 1].y_offset = plan_log[i].y_offset)
            /\ (cpc = "responded" => Len(plan_log) > i \/ i = Len(sorted_plans))
    /\ (cpc = "responded" /\ response.status = 200) =>
         \A i \in 1..Len(plan_log) :
            plan_log[i].n_entities = 0 =>
               \E k \in 1..Len(skipped_plans(response)) :
                   skipped_plans(response)[k] = plan_log[i].plan_name

\* Plans "A" and "B", the item of "B" not in the Drive folder: "B" returns the
\* empty result, "A" is uploaded, and the 200 names no skipped plan.
C13_FailingInput ==
    /\ cpc = "responded"
    /\ response.status = 200
    /\ sorted_plans = <<<<"A">>, <<"B">>>>
    /\ Len(plan_log) = 2
    /\ plan_log[1].n_entities > 0
    /\ plan_log[2].items = <<Item("missing", SKU_D2)>>
    /\ plan_log[2].n_entities = 0 /\ ~plan_log[2].raised
    /\ DOMAIN response.body = {"message", "dxf_url"}

\* C14: an exception that leaves the layout of one plan does not end the
\* request: every plan is still processed, and what was laid out is uploaded.
C14_PlanFailureDoesNotAbort ==
    (cpc = "responded" /\ \E i \in 1..Len(plan_log) : plan_log[i].raised) =>
        /\ Len(plan_log) = Len(sorted_plans)
        /\ (msp # <<>> => response.upload_called)

\* Plans "A" and "B": "A" is copied into the document, the drawing of the item
\* of "B" holds an entity whose translate() raises; the request answers 500
\* and uploads nothing.
C14_FailingInput ==
    /\ cpc = "responded"
    /\ sorted_plans = <<<<"A">>, <<"B">>>>
    /\ Len(plan_log) = 2
    /\ plan_log[1].n_entities > 0
    /\ plan_log[2].items = <<Item("rigid", SKU_D2)>>
    /\ plan_log[2].raised
    /\ msp # <<>>
    /\ response.status = 500
    /\ ~response.upload_called

\* The entities of the modelspace under study whose extent can be read
Extents == {i \in 1..Len(b_msp) : b_msp[i].hasExt}

\* r is the smallest box around the extents that can be read
Tight(r) ==
    /\ Extents # {}
    /\ \A i \in Extents : /\ r[1] <= b_msp[i].x0 /\ r[2] <= b_msp[i].y0
                            /\ r[3] >= b_msp[i].x1 /\ r[4] >= b_msp[i].y1
    /\ \E i \in Extents : r[1] = b_msp[i].x0
    /\ \E i \in Extents : r[2] = b_msp[i].y0
    /\ \E i \in Extents : r[3] = b_msp[i].x1
    /\ \E i \in Extents : r[4] = b_msp[i].y1

Proper(r) == r[1] < r[3] /\ r[2] < r[4]

\* C15: calcular_bbox_dxf returns the smallest box around the extents that
\* can be read when that box has positive width and height, and (0,0,0,0)
\* when no extent can be read or the box has no width or no height.
C15_BBox ==
    b_ret # <<>> =>
        \/ Tight(b_ret) /\ Proper(b_ret)
        \/ /\ b_ret = <<0, 0, 0, 0>>
           /\ ~\E r \in BBoxCoords \X BBoxCoords \X BBoxCoords \X BBoxCoords :
                  Tight(r) /\ Proper(r)

C15_Witness ==
    /\ Len(b_msp) = 2
    /\ b_msp[1] = NoExtent
    /\ b_msp[2] = Shape(-1000, 0, 2000, 2000)
    /\ b_ret = <<-1000, 0, 2000, 2000>>

\* The entities of a drawing whose extent can be read
Readable(ents) == {i \in 1..Len(ents) : ents[i].hasExt}

\* The readable extents of a drawing span no box of positive width and height
NoBox(ents) ==
    \/ \A i, j \in Readable(ents) : ents[i].x1 <= ents[j].x0
    \/ \A i, j \in Readable(ents) : ents[i].y1 <= ents[j].y0

\* w x h at (ox, oy) is the box measured around the readable extents
Measured(ents, w, h, ox, oy) ==
    /\ \A i \in Readable(ents) :
          /\ ox <= ents[i].x0 /\ ents[i].x1 <= ox + w
          /\ oy <= ents[i].y0 /\ ents[i].y1 <= oy + h
    /\ \E i \in Readable(ents) : ents[i].x0 = ox
    /\ \E i \in Readable(ents) : ents[i].y0 = oy
    /\ \E i \in Readable(ents) : ents[i].x1 = ox + w
    /\ \E i \in Readable(ents) : ents[i].y1 = oy + h

\* A fragment has the measured size and origin, or, when nothing can be
\* measured, the fallback size fw x fh of its role and the origin (0,0)
FragmentSized(ents, w, h, ox, oy, fw, fh) ==
    /\ w > 0 /\ h > 0
    /\ IF NoBox(ents)
       THEN w = fw /\ h = fh /\ ox = 0 /\ oy = 0
       ELSE Measured(ents, w, h, ox, oy)

\* C16: every item, plan-info and bar fragment has the measured size and
\* origin of its drawing, or the fallback size of its role and the origin
\* (0,0) when its box measures 0 x 0; every fragment placed has positive
\* width and height.
C16_FragmentFallback ==
    pc = "returned" =>
        /\ \A key \in DOMAIN ret.organized :
              \A n \in 1..Len(ret.organized[key]) :
                  LET f == ret.organized[key][n]
                  IN  FragmentSized(f.entities, f.bbox_width, f.bbox_height,
                                    f.original_min_x, f.original_min_y,
                                    129000, 225998)
        /\ ret.plano.entities # <<>> =>
              FragmentSized(ret.plano.entities, ret.plano.width, ret.plano.height,
                            ret.plano.original_min_x, ret.plano.original_min_y,
                            236000, 21500)
        /\ barra.entities # <<>> =>
              FragmentSized(barra.entities, barra.width, barra.height,
                            barra.original_min_x, barra.original_min_y,
                            10000, 250000)
        /\ \A j \in 1..Len(ret.frags) : ret.frags[j].w > 0 /\ ret.frags[j].h > 0

\* An item, the plan-info drawing and the bar without a measurable extent
\* next to an item that is measured
C16_Witness ==
    /\ pc = "returned"
    /\ call.items = <<Item("noext", SKU_D2), Item("off", SKU_D4)>>
    /\ call.plan_name = <<"D">>
    /\ barra.entities = <<NoExtent>>
    /\ ret.plano.width = 236000 /\ ret.plano.height = 21500
    /\ \E j \in 1..Len(ret.frags) :
          ret.frags[j].kind = "barra" /\ ret.frags[j].w = 10000 /\ ret.frags[j].h = 250000
    /\ \E j \in 1..Len(ret.frags) :
          ret.frags[j].kind = "item" /\ ret.frags[j].w = 129000 /\ ret.frags[j].h = 225998
    /\ \E j \in 1..Len(ret.frags) :
          ret.frags[j].kind = "item" /\ ret.frags[j].w = 50000 /\ ret.frags[j].h = 80000

\* The call is that of scenario B: two items of one leaf, neither measurable
ScenarioB ==
    /\ pc = "returned"
    /\ Len(call.items) = 2
    /\ \A i \in 1..2 :
          /\ ItemLoads(call.items[i])
          /\ NoBox(DriveFolder(call.items[i].id_arquivo_drive).file.ents)
    /\ call.items[1].sku = call.items[2].sku

\* The placed entities that belong to item fragments
ItemEntities(r) == {p \in 1..Len(r.entities) : r.frags[r.entities[p].frag].kind = "item"}

\* C17: two items of one leaf that both fall back to 129 x 225.998 come
\* back in one row, with recorded y = 0 and recorded x values 229 apart.
C17_ScenarioB ==
    ScenarioB =>
        /\ Cardinality(ItemLines(ret)) = 2
        /\ \A j, k \in ItemLines(ret) : SameRow(ret, j, k)
        /\ Cardinality(ItemEntities(ret)) = 2
        /\ \A p \in ItemEntities(ret) : ret.entities[p].y = 0
        /\ \E p, q \in ItemEntities(ret) :
              ret.entities[q].x - ret.entities[p].x = 129000 + 100000

\* Scenario B without a plan-info drawing: both items are recorded at
\* y = -50, 229 apart, by the return that skips the normalization.
C17_FailingInput ==
    /\ ScenarioB
    /\ call.plan_name = <<"B">>
    /\ ret.path = "degenerate"
    /\ Cardinality(ItemEntities(ret)) = 2
    /\ \A p \in ItemEntities(ret) : ret.entities[p].y = -50000
    /\ ret.entities[2].x - ret.entities[1].x = 229000

\* The call is that of scenario A: no items, a plan-info drawing that is
\* present and measurable
ScenarioA ==
    /\ pc = "returned"
    /\ call.items = <<>>
    /\ PlanoInfoDir(call.plan_name).exists
    /\ PlanoInfoDir(call.plan_name).readable
    /\ ~NoBox(PlanoInfoDir(call.plan_name).ents)

\* C18: with no items and a measured plan-info drawing of W x H the result
\* is the plan-info fragment alone, placed at x = 50 before normalization,
\* with its lower-left corner at (0,0) after it, and the returned width and
\* height are W and H.
C18_ScenarioA ==
    ScenarioA =>
        LET ents == PlanoInfoDir(call.plan_name).ents
            R == Readable(ents)
            W == MaxOf({ents[i].x1 : i \in R}) - MinOf({ents[i].x0 : i \in R})
            H == MaxOf({ents[i].y1 : i \in R}) - MinOf({ents[i].y0 : i \in R})
            ps == 1..Len(ret.entities)
        IN  /\ Len(ret.frags) = 1
            /\ ret.frags[1].kind = "plano"
            /\ ret.frags[1].x = 50000
            /\ ret.frags[1].w = W /\ ret.frags[1].h = H
            /\ Len(ret.entities) = Len(ents)
            /\ \A p \in ps : ret.entities[p].frag = 1
            /\ MinOf({ret.entities[p].ent.x0 : p \in ps}) = 0
            /\ MinOf({ret.entities[p].ent.y0 : p \in ps}) = 0
            /\ ret.layout_width = W
            /\ ret.layout_height = H

C18_Witness ==
    /\ ScenarioA
    /\ call.plan_name = <<"A">>
    /\ ret.path = "normalized"
    /\ Len(ret.entities) = 1
    /\ ret.entities[1].ent.x0 = 0 /\ ret.entities[1].ent.y0 = 0
    /\ ret.entities[1].ent.x1 = 236000 /\ ret.entities[1].ent.y1 = 21500
    /\ ret.layout_width = 236000 /\ ret.layout_height = 21500

\* C19: once a call has run load_barra_dxf, no later call changes the bar
\* globals, whatever the first load found.
C19_BarLoadedOnce ==
    [][snap # NoSnap => barra' = barra]_vars

\* A call that found no bar file and separated its two groups by spacing
\* alone, and a later call of the same process that places the bar that was
\* deployed in between.
C19_FailingInput ==
    /\ snap # NoSnap
    /\ snap.call.bar_file = AbsentFile
    /\ snap.call.items = <<Item("ok", SKU_D2), Item("off", SKU_D4)>>
    /\ \A j \in 1..Len(snap.ret.frags) : snap.ret.frags[j].kind # "barra"
    /\ pc = "returned"
    /\ call.bar_file = Drawing(<<Shape(2000, 3000, 10000, 263000)>>)
    /\ barra.entities # <<>>
    /\ \E j \in 1..Len(ret.frags) : ret.frags[j].kind = "barra"

\* C20: when generate_single_plan_layout_data returns, none of the local
\* copies /tmp/<sku>.dxf of its items is left on disk.
C20_NoTempFileLeft ==
    pc = "returned" => ret.tmp = {}

\* The download of the item's file fails after the local file was opened
C20_FailingInput ==
    /\ pc = "returned"
    /\ call.items = <<Item("dlfail", SKU_D2)>>
    /\ ~ret.raises
    /\ ret.tmp = {SKU_D2}

\* The heights of the colour rows of a result, added up
RECURSIVE SumHeights(_)
SumHeights(rows) ==
    IF rows = <<>> THEN 0 ELSE Head(rows).height + SumHeights(Tail(rows))

\* The plan-info drawing of the call is absent or cannot be read
PlanoUnusable ==
    /\ pc = "returned"
    /\ ~PlanoInfoDir(call.plan_name).exists \/ ~PlanoInfoDir(call.plan_name).readable

\* C21: without a usable plan-info drawing the call does not raise, places
\* no plan-info fragment, reserves neither its height nor the spacing below
\* it, and returns what it returns for the same items with no plan-info
\* drawing at all.
C21_PlanoDegradation ==
    PlanoUnusable =>
        /\ ~ret.raises
        /\ \A j \in 1..Len(ret.frags) : ret.frags[j].kind # "plano"
        /\ ret.estimated = IF ret.rows = <<>> THEN 1000
                           ELSE SumHeights(ret.rows) + 200000 * (Len(ret.rows) - 1)
        /\ ret.rows # <<>> =>
              ret.rows[1].base_y + ret.rows[1].height = ret.estimated - 50000
        /\ Returned(ret)
             = Returned(generate_single_plan_layout_data(call.items, AbsentFile, barra))

\* A plan-info drawing that exists and cannot be read, over two colour rows
C21_Witness ==
    /\ PlanoUnusable
    /\ PlanoInfoDir(call.plan_name).exists
    /\ Len(ret.rows) = 2
    /\ ret.path = "normalized"
    /\ ret.entities # <<>>

\* The item log lines of the n-th colour row of a result
ItemsOfRow(r, n) == {j \in ItemLines(r) : r.frags[j].key[1] = r.rows[n].color}

\* The leaf groups of the n-th colour row
GroupsOfRow(r, n) == {r.frags[j].key : j \in ItemsOfRow(r, n)}

\* The vertical cursor when the n-th colour row starts
CursorAtRow(r, n) ==
    IF n > 1 THEN r.rows[n - 1].base_y - 200000
    ELSE IF r.plano.entities # <<>> THEN r.estimated - 50000 - r.plano.height - 100000
    ELSE r.estimated - 50000

\* C22: the height of a colour row is the height of its tallest item, and
\* of the bar exactly when a bar is placed in the row (a bar is loaded and
\* the colour has more than one group); the baseline is cursor - height.
C22_RowHeightDefinition ==
    pc = "returned" =>
        \A n \in 1..Len(ret.rows) :
            LET heights == {ret.frags[j].h : j \in ItemsOfRow(ret, n)}
                separated == barra.entities # <<>>
                               /\ Cardinality(GroupsOfRow(ret, n)) > 1
            IN  /\ ret.rows[n].height
                     = MaxOf(heights \cup (IF separated THEN {barra.height} ELSE {}))
                /\ ret.rows[n].base_y = CursorAtRow(ret, n) - ret.rows[n].height

\* One item of height 30 and a loaded bar of height 260: no bar is placed
\* and the row is 260 high.
C22_FailingInput ==
    /\ pc = "returned"
    /\ call.items = <<Item("ok", SKU_D2)>>
    /\ call.plan_name = <<"B">>
    /\ barra.entities # <<>> /\ barra.height = 260000
    /\ \A j \in 1..Len(ret.frags) : ret.frags[j].kind # "barra"
    /\ Len(ret.rows) = 1
    /\ ret.rows[1].height = 260000
    /\ ret.frags[1].h = 30000

\* The item line placed before item line k in its colour row, 0 if none
PrevItem(r, k) ==
    LET prevs == {j \in ItemLines(r) : j < k /\ SameRow(r, j, k)}
    IN  IF prevs = {} THEN 0 ELSE MaxOf(prevs)

\* The placed entities of log line m whose extent can be read
ExtentsOf(r, m) == {p \in 1..Len(r.entities) :
                       r.entities[p].frag = m /\ r.entities[p].ent.hasExt}

\* C23: between two neighbouring groups of a colour row exactly one bar is
\* placed, its lower-left corner 100 after the end of the previous item on
\* the row baseline, and the next item starts 100 after the bar; with no
\* bar loaded the next item starts 100 after the previous one.  Inside a
\* group nothing is placed between two items.
C23_SeparatorInsertion ==
    pc = "returned" =>
        \A k \in ItemLines(ret) :
            LET f == ret.frags
                j == PrevItem(ret, k)
            IN  j # 0 =>
                  IF f[j].key = f[k].key THEN k = j + 1
                  ELSE IF barra.entities # <<>>
                  THEN /\ k = j + 2
                       /\ f[j + 1].kind = "barra"
                       /\ f[j + 1].x = f[j].x + f[j].w + 100000
                       /\ f[j + 1].y = RowOf(ret, k).base_y
                       /\ f[j + 1].w = barra.width
                       /\ f[k].x = f[j + 1].x + barra.width + 100000
                       /\ ExtentsOf(ret, j + 1) # {} =>
                            /\ MinOf({ret.entities[p].ent.x0 : p \in ExtentsOf(ret, j + 1)})
                                 = f[j + 1].x + ret.offset_x_final
                            /\ MinOf({ret.entities[p].ent.y0 : p \in ExtentsOf(ret, j + 1)})
                                 = f[j + 1].y + ret.offset_y_final
                  ELSE /\ k = j + 1
                       /\ f[k].x = f[j].x + f[j].w + 100000

\* A row of three groups that meet at a size and at a format boundary, with
\* a bar between each two
C23_Witness ==
    /\ pc = "returned"
    /\ barra.entities # <<>>
    /\ Len(ret.frags) = 5
    /\ ret.frags[1].kind = "item" /\ ret.frags[2].kind = "barra"
    /\ ret.frags[3].kind = "item" /\ ret.frags[4].kind = "barra"
    /\ ret.frags[5].kind = "item"
    /\ ret.frags[1].key[2] = ret.frags[3].key[2]
    /\ ret.frags[1].key[3] # ret.frags[3].key[3]
    /\ ret.frags[3].key[2] # ret.frags[5].key[2]
    /\ ret.frags[4].x = ret.frags[3].x + ret.frags[3].w + 100000

\* The code point of a character of the model's alphabet
Ord(c) ==
    CASE c = "-" -> 45 [] c = "0" -> 48 [] c = "2" -> 50 [] c = "3" -> 51
      [] c = "4" -> 52 [] c = "5" -> 53 [] c = "A" -> 65 [] c = "B" -> 66
      [] c = "D" -> 68 [] c = "P" -> 80 [] c = "Q" -> 81

\* a < b for strings: a is a proper prefix of b, or the first position
\* where they differ holds the smaller code point in a
Lt(a, b) ==
    \E i \in 1..(Len(b)) :
        /\ \A m \in 1..(i - 1) : m <= Len(a) /\ a[m] = b[m]
        /\ i > Len(a) \/ Ord(a[i]) < Ord(b[i])

\* (format, size, hole type, SKU) of an item log line
OrderKey(r, j) == <<r.frags[j].key[2], r.frags[j].key[3], r.frags[j].key[4], r.frags[j].sku>>

KeyLt(k1, k2) ==
    \E i \in 1..4 : (\A m \in 1..(i - 1) : k1[m] = k2[m]) /\ Lt(k1[i], k2[i])

\* C24: the row of a smaller colour key lies strictly above the row of a
\* greater one, and in a row the item with the smaller (format, size, hole
\* type, SKU) lies to the left.
C24_PlacementOrder ==
    pc = "returned" =>
        /\ \A a, b \in 1..Len(ret.rows) :
              Lt(ret.rows[a].color, ret.rows[b].color) =>
                  ret.rows[a].base_y >= ret.rows[b].base_y + ret.rows[b].height
        /\ \A j, k \in ItemLines(ret) :
              (SameRow(ret, j, k) /\ KeyLt(OrderKey(ret, j), OrderKey(ret, k))) =>
                  ret.frags[j].x < ret.frags[k].x

\* Items handed over in descending order: size "30" before size "3", the
\* greater colour first
C24_Witness ==
    /\ pc = "returned"
    /\ call.items = <<Item("ok", SKU_S30), Item("off", SKU_D2B), Item("ins", SKU_B2)>>
    /\ Len(ret.rows) = 2
    /\ ret.rows[1].color = <<"B">>
    /\ ret.rows[1].base_y > ret.rows[2].base_y
    /\ \E j, k \in ItemLines(ret) :
          /\ ret.frags[j].sku = SKU_D2B /\ ret.frags[k].sku = SKU_S30
          /\ ret.frags[j].x < ret.frags[k].x

\* The top of the n-th colour row
RowTop(r, n) == r.rows[n].base_y + r.rows[n].height

\* C25: the plan-info fragment is the topmost band, at the left margin; the
\* first row starts 100 below it; every further row starts 200 below the
\* baseline of the row before; every row starts at the left margin.
C25_BandStacking ==
    pc = "returned" =>
        LET f == ret.frags IN
        /\ ret.plano.entities # <<>> =>
              /\ f[1].kind = "plano"
              /\ f[1].x = 50000
              /\ f[1].y + f[1].h = ret.estimated - 50000
              /\ \A j \in 2..Len(f) : f[j].kind # "plano" /\ f[j].y + f[j].h <= f[1].y
              /\ ret.rows # <<>> => RowTop(ret, 1) = f[1].y - 100000
        /\ \A n \in 2..Len(ret.rows) :
              /\ RowTop(ret, n) = ret.rows[n - 1].base_y - 200000
              /\ RowTop(ret, n) < ret.rows[n - 1].base_y
        /\ \A n \in 1..Len(ret.rows) :
              /\ ItemsOfRow(ret, n) # {}
              /\ f[MinOf(ItemsOfRow(ret, n))].x = 50000
              /\ \A j \in RowLines(ret) :
                    f[j].key[1] = ret.rows[n].color =>
                        f[j].y >= ret.rows[n].base_y /\ f[j].y + f[j].h <= RowTop(ret, n)

\* A measured plan-info drawing over two colour rows
C25_Witness ==
    /\ pc = "returned"
    /\ call.plan_name = <<"A">>
    /\ ret.frags[1].kind = "plano"
    /\ Len(ret.rows) = 2
    /\ RowTop(ret, 1) = ret.frags[1].y - 100000
    /\ RowTop(ret, 2) = ret.rows[1].base_y - 200000

\* The result is not empty and the box around everything placed is degenerate
DegenerateBox ==
    /\ pc = "returned"
    /\ ~ret.raises
    /\ ret.entities # <<>>
    /\ NoBox([p \in 1..Len(ret.entities) |-> ret.entities[p].ent])

\* C26: with a degenerate final box the call returns the placements as
\* placed, the estimated height and the width 200, and the value returned
\* carries a flag that tells the caller so.
C26_DegenerateFlagged ==
    DegenerateBox =>
        /\ \A p \in 1..Len(ret.entities) :
              /\ ret.entities[p].x = ret.frags[ret.entities[p].frag].x
              /\ ret.entities[p].y = ret.frags[ret.entities[p].frag].y
        /\ ret.layout_height = ret.estimated
        /\ ret.layout_width = 2 * 50000 + 100000
        /\ Len(returned_tuple(ret)) > 3

\* One item without a measurable extent, no plan-info drawing: the caller
\* gets (placements, 200, 225.998) and nothing else.
C26_FailingInput ==
    /\ DegenerateBox
    /\ call.items = <<Item("noext", SKU_D2)>>
    /\ call.plan_name = <<"B">>
    /\ barra.entities = <<>>
    /\ returned_tuple(ret) = <<ret.entities, 200000, 225998>>
    /\ Len(ret.entities) = 1

\* The placed entities of log line m, in the order of placement
PlacedOf(r, m) == SelectSeq(r.entities, LAMBDA e : e.frag = m)

\* Entity e is entity src moved by (dx, dy)
MovedBy(e, src, dx, dy) ==
    /\ e.hasExt = src.hasExt
    /\ e.x0 = src.x0 + dx /\ e.x1 = src.x1 + dx
    /\ e.y0 = src.y0 + dy /\ e.y1 = src.y1 + dy

\* C27: after the call the cached bar is what was loaded from the bar
\* file, the entity lists of the grouping index are those of the drawings
\* downloaded, and every bar placed is the cached bar moved as a whole to
\* its position.
C27_SourcesNotMutated ==
    pc = "returned" =>
        /\ barra.entities # <<>> =>
              /\ barra.entities = call.bar_file.ents
              /\ FragmentSized(call.bar_file.ents, barra.width, barra.height,
                               barra.original_min_x, barra.original_min_y,
                               10000, 250000)
        /\ \A key \in DOMAIN ret.organized :
              \A n \in 1..Len(ret.organized[key]) :
                  \E i \in 1..Len(call.items) :
                      /\ call.items[i].sku = ret.organized[key][n].sku
                      /\ ret.organized[key][n].entities
                           = DriveFolder(call.items[i].id_arquivo_drive).file.ents
        /\ \A m \in 1..Len(ret.frags) :
              ret.frags[m].kind = "barra" =>
                  /\ Len(PlacedOf(ret, m)) = Len(barra.entities)
                  /\ \A i \in 1..Len(barra.entities) :
                        MovedBy(PlacedOf(ret, m)[i].ent, barra.entities[i],
                                ret.frags[m].x - barra.original_min_x + ret.offset_x_final,
                                ret.frags[m].y - barra.original_min_y + ret.offset_y_final)

\* A row with two bars
C27_Witness ==
    /\ pc = "returned"
    /\ barra.entities # <<>>
    /\ ret.path = "normalized"
    /\ \E m, n \in 1..Len(ret.frags) :
          /\ m < n
          /\ ret.frags[m].kind = "barra" /\ ret.frags[n].kind = "barra"
          /\ SameRow(ret, m, n)
          /\ PlacedOf(ret, n)[1].ent.x0 > PlacedOf(ret, m)[1].ent.x1

\* The call of the composer of one plan had a plan-info drawing and built
\* its final document
Reinserted ==
    /\ l_ret.at = "line 648"
    /\ PlanoInfoDir(l_call.plan_name).exists
    /\ PlanoInfoDir(l_call.plan_name).readable

\* How many entries of a document are the fragment frag of colour c and
\* hole type h
InsertedTimes(doc, c, h, frag) ==
    Cardinality({m \in 1..Len(doc) :
        /\ doc[m].color = c /\ doc[m].hole_type = h /\ doc[m].sku = frag.sku
        /\ doc[m].width = frag.bbox_width /\ doc[m].height = frag.bbox_height})

\* How many entries of a leaf list are equal to frag
StoredTimes(leaf, frag) == Cardinality({n \in 1..Len(leaf) : leaf[n] = frag})

\* C28: with a plan-info drawing, every fragment stored under a colour and
\* a hole type is in the final document exactly once, and the final
\* document holds nothing else.
C28_LegacyCardinality ==
    Reinserted =>
        /\ \A key \in DOMAIN l_ret.organized :
              \A n \in 1..Len(l_ret.organized[key]) :
                  InsertedTimes(l_ret.final_msp, key[1], key[2], l_ret.organized[key][n])
                    = StoredTimes(l_ret.organized[key], l_ret.organized[key][n])
        /\ \A m \in 1..Len(l_ret.final_msp) :
              <<l_ret.final_msp[m].color, l_ret.final_msp[m].hole_type>>
                  \in DOMAIN l_ret.organized

\* Colour B with hole type 2, colour D with hole type 4: the first pass
\* inserts both items, the final document holds the item of colour D only.
C28_FailingInput ==
    /\ Reinserted
    /\ l_call.items = <<LegacyItem("ins", SKU_B2), LegacyItem("off", SKU_D4)>>
    /\ Len(l_ret.msp) = 2
    /\ Len(l_ret.final_msp) = 1
    /\ l_ret.final_msp[1].sku = SKU_D4

\* The non-empty leaf groups of the grouping index under colour c
LeafGroups(r, c) == {key \in DOMAIN r.organized : key[1] = c /\ r.organized[key] # <<>>}

\* The log lines (items and bars) of the n-th colour row
LinesOfRow(r, n) == {j \in RowLines(r) : r.frags[j].key[1] = r.rows[n].color}

\* The item lines of the n-th row that start a group after another item:
\* the places where a plain-spacing gap is inserted when no bar is loaded
GapsOfRow(r, n) ==
    {k \in ItemsOfRow(r, n) : PrevItem(r, k) # 0
                                /\ r.frags[PrevItem(r, k)].key # r.frags[k].key}

\* C29: a colour row holds one separator less than the colour has non-empty
\* leaf groups; the first and the last fragment of a row are items, the
\* first one at the left margin; no two separators follow one another.
\* With a bar loaded the separators are the bar copies; with none they are
\* the gaps of 100 between the last item of a group and the first of the next.
C29_SeparatorCount ==
    pc = "returned" =>
        \A n \in 1..Len(ret.rows) :
            LET f == ret.frags
                lines == LinesOfRow(ret, n)
                bars == {j \in lines : f[j].kind = "barra"}
                groups == LeafGroups(ret, ret.rows[n].color)
            IN  /\ groups # {}
                /\ lines # {}
                /\ f[MinOf(lines)].kind = "item"
                /\ f[MinOf(lines)].x = MARGEM_ESQUERDA
                /\ f[MaxOf(lines)].kind = "item"
                /\ \A j \in bars : j + 1 \notin bars
                /\ Cardinality(GapsOfRow(ret, n)) = Cardinality(groups) - 1
                /\ IF barra.entities # <<>>
                   THEN /\ Cardinality(bars) = Cardinality(groups) - 1
                        /\ \A j \in bars : j + 1 \in GapsOfRow(ret, n)
                   ELSE /\ bars = {}
                        /\ \A k \in GapsOfRow(ret, n) :
                              f[k].x = f[PrevItem(ret, k)].x + f[PrevItem(ret, k)].w
                                         + ESPACAMENTO_DXF_MESMO_FURO

\* A row of one leaf group with no bar, above a row of two leaf groups with
\* one bar between them
C29_Witness ==
    /\ pc = "returned"
    /\ barra.entities # <<>>
    /\ Len(ret.rows) = 2
    /\ Cardinality(LeafGroups(ret, ret.rows[1].color)) = 1
    /\ Cardinality(LeafGroups(ret, ret.rows[2].color)) = 2
    /\ Cardinality({j \in LinesOfRow(ret, 2) : ret.frags[j].kind = "barra"}) = 1
    /\ {j \in LinesOfRow(ret, 1) : ret.frags[j].kind = "barra"} = {}

\* The permutations of 1..n
Orders(n) == {p \in [1..n -> 1..n] : \A i, j \in 1..n : i # j => p[i] # p[j]}

\* The item list in the order given by permutation p
Permuted(items, p) == [i \in 1..Len(items) |-> items[p[i]]]

PairwiseDistinctSkus(items) ==
    \A i, j \in 1..Len(items) : i # j => items[i].sku # items[j].sku

\* The item log lines of SKU s, in the order they were placed
LinesOfSku(r, s) ==
    SelectSeq([j \in 1..Len(r.frags) |-> j],
              LAMBDA j : r.frags[j].kind = "item" /\ r.frags[j].sku = s)

\* The items of SKU s, in the order of the input list
ItemsOfSku(items, s) == SelectSeq(items, LAMBDA it : it.sku = s)

\* C30: with pairwise distinct SKUs every permutation of the item list gives
\* the same placements, fragment positions, rows, width and height; the
\* items of one SKU are placed from left to right in the order of the input
\* list.
C30_OrderIndependence ==
    (pc = "returned" /\ ~ret.raises) =>
        /\ PairwiseDistinctSkus(call.items) =>
              \A p \in Orders(Len(call.items)) :
                  LET other == generate_single_plan_layout_data(
                                   Permuted(call.items, p),
                                   PlanoInfoDir(call.plan_name), barra)
                  IN  /\ returned_tuple(other) = returned_tuple(ret)
                      /\ other.frags = ret.frags
                      /\ other.rows = ret.rows
        /\ \A s \in {call.items[i].sku : i \in 1..Len(call.items)} :
              LET lines == LinesOfSku(ret, s)
                  given == ItemsOfSku(call.items, s)
              IN  /\ Len(lines) = Len(given)
                  /\ \A n \in 1..Len(lines) :
                        LET frag == item_fragment(s, DriveFolder(given[n].id_arquivo_drive).file)
                        IN  /\ ret.frags[lines[n]].w = frag.bbox_width
                            /\ ret.frags[lines[n]].h = frag.bbox_height
                            /\ Len(PlacedOf(ret, lines[n])) = Len(frag.entities)
                  /\ \A n, m \in 1..Len(lines) :
                        n < m => ret.frags[lines[n]].x < ret.frags[lines[m]].x

\* Three items of pairwise different SKUs handed over in descending order
\* of their keys: the last one given is placed first
C30_Witness ==
    /\ pc = "returned"
    /\ ret.path = "normalized"
    /\ call.items = <<Item("off", SKU_Q), Item("ok", SKU_S30), Item("off", SKU_D2B)>>
    /\ PairwiseDistinctSkus(call.items)
    /\ ret.frags[1].sku = SKU_D2B
    /\ Cardinality(ItemLines(ret)) = 3

====
